---- MODULE Spec2Model ----
(***************************************************************************)
(* A model of benjcollins/compiler: the recursive-descent parser           *)
(* (parser.rs), the AST -> IR compiler with monomorphisation (compiler.rs, *)
(* types.rs, scope.rs, ir.rs) and the register-file interpreter            *)
(* (execute.rs), driven as in main.rs.                                     *)
(*                                                                         *)
(* The compiler's recursive descent is unfolded into a machine with an     *)
(* explicit continuation stack: one action per match arm of compile and    *)
(* per resumption point after a recursive call.  The interpreter runs one  *)
(* instruction (or exit) per step with an explicit call stack.             *)
(*                                                                         *)
(* Spec runs main.rs on each source text of Sources; SpecAlloc runs the    *)
(* register allocator (register_allocator.rs) on the compiled functions    *)
(* instead of the interpreter; SpecTypes applies the operations of         *)
(* types.rs to operands drawn from a bounded set of types; SpecScope       *)
(* assigns names to a scope that starts empty.                             *)
(* The properties C1..C20 of the specification follow the model.           *)
(***************************************************************************)
EXTENDS Integers, Sequences, FiniteSets, TLC

(***************************************************************************)
(* Characters (position.rs / char predicates used by parser.rs)            *)
(***************************************************************************)
Numeric == {"0", "1", "2", "3", "4", "5", "6", "7", "8", "9"}

Alphabetic == {"a", "b", "c", "d", "e", "f", "g", "h", "i", "j", "k", "l", "m",
               "n", "o", "p", "q", "r", "s", "t", "u", "v", "w", "x", "y", "z"}

Alphanumeric == Alphabetic \cup Numeric

Whitespace == {" ", "\n"}

WhitespaceNoNewline == Whitespace \ {"\n"}

(***************************************************************************)
(* AST (ast.rs).  Lexemes are sequences of one-character strings.          *)
(***************************************************************************)
IntLiteral(lex) == [k |-> "IntLiteral", lex |-> lex]

BoolLiteral(lex) == [k |-> "BoolLiteral", lex |-> lex]

Ident(lex) == [k |-> "Ident", lex |-> lex]

TupleExpr(exprs) == [k |-> "Tuple", exprs |-> exprs]

BlockExpr(exprs, last) == [k |-> "Block", exprs |-> exprs, last |-> last]

NoName == [some |-> FALSE, lex |-> <<>>]

SomeName(lex) == [some |-> TRUE, lex |-> lex]

FuncExpr(name, pattern, expr) ==
    [k |-> "Func", name |-> name, pattern |-> pattern, expr |-> expr]

Binary(left, right, op) ==
    [k |-> "Binary", left |-> left, right |-> right, op |-> op]

IfExpr(cond, conc) == [k |-> "If", cond |-> cond, conc |-> conc]

StructExpr(body) == [k |-> "Struct", body |-> body]

\* Expr::new_binary
new_binary(left, right, op) == Binary(left, right, op)

\* Expr::new_tuple: a tuple on the left absorbs the right operand
new_tuple(left, right) ==
    IF left.k = "Tuple" THEN TupleExpr(Append(left.exprs, right))
    ELSE TupleExpr(<<left, right>>)

\* Expr::new_block: a block on the left absorbs the right operand
new_block_expr(left, right) ==
    IF left.k = "Block" THEN BlockExpr(Append(left.exprs, left.last), right)
    ELSE BlockExpr(<<left>>, right)

(***************************************************************************)
(* Parser (parser.rs).  A position is the index of the next character.     *)
(***************************************************************************)
PrecBlock == 0

PrecTuple == 1

PrecExpr == 2

PrecSum == 3

RECURSIVE next_while(_, _, _)
next_while(s, pos, cls) ==
    IF pos <= Len(s) /\ s[pos] \in cls THEN next_while(s, pos + 1, cls) ELSE pos

slice(s, start, end) == SubSeq(s, start, end - 1)

skip_spaces(s, pos) == next_while(s, pos, WhitespaceNoNewline)

skip_lines(s, pos) == next_while(s, pos, Whitespace)

HasChar(s, pos) == pos <= Len(s)

ParseOk(node, end) == [ok |-> TRUE, node |-> node, end |-> end]

expected_value(pos) ==
    [ok |-> FALSE, err |-> "ExpectedValue", str |-> "", pos |-> pos]

expected_string(pos, str) ==
    [ok |-> FALSE, err |-> "ExpectedString", str |-> str, pos |-> pos]

RECURSIVE parse(_, _, _)
RECURSIVE parse_infix(_, _, _)
RECURSIVE parse_prefix(_, _)

\* parser.rs 42-99: the prefix forms
parse_prefix(s, start) ==
    IF ~HasChar(s, start) THEN expected_value(start)
    ELSE LET ch == s[start]
             pos == start + 1
         IN
         IF ch \in Numeric THEN
            LET end == next_while(s, pos, Numeric)
            IN ParseOk(IntLiteral(slice(s, start, end)), end)
         ELSE IF ch = "(" THEN
            LET expr == parse(s, skip_lines(s, pos), PrecTuple)
            IN IF ~expr.ok THEN expr
               ELSE IF HasChar(s, expr.end) /\ s[expr.end] = ")"
                    THEN ParseOk(expr.node, expr.end + 1)
                    ELSE expected_string(skip_lines(s, expr.end), ")")
         ELSE IF ch = "{" THEN
            LET expr == parse(s, skip_lines(s, pos), PrecBlock)
            IN IF ~expr.ok THEN expr
               ELSE LET close == skip_lines(s, expr.end)
                    IN IF HasChar(s, close) /\ s[close] = "}"
                       THEN ParseOk(expr.node, close + 1)
                       ELSE expected_string(close, "}")
         ELSE IF ch \in Alphabetic THEN
            LET end == next_while(s, pos, Alphanumeric)
                word == slice(s, start, end)
                after == skip_lines(s, end)
            IN
            IF word = <<"f", "n">> THEN
               LET named == HasChar(s, after) /\ s[after] \in Alphabetic
                   end_name == IF named
                               THEN next_while(s, after + 1, Alphanumeric)
                               ELSE after
                   name == IF named THEN SomeName(slice(s, after, end_name))
                           ELSE NoName
                   pstart == skip_lines(s, end_name)
               IN IF ~(HasChar(s, pstart) /\ s[pstart] = "(")
                  THEN expected_string(after, "(")
                  ELSE LET pattern == parse(s, pstart, PrecExpr)
                       IN IF ~pattern.ok THEN pattern
                          ELSE LET expr == parse(s, skip_lines(s, pattern.end),
                                                 PrecExpr)
                               IN IF ~expr.ok THEN expr
                                  ELSE ParseOk(FuncExpr(name, pattern.node,
                                                        expr.node), expr.end)
            ELSE IF word = <<"s", "t", "r", "u", "c", "t">> THEN
               IF ~(HasChar(s, after) /\ s[after] = "{")
               THEN expected_string(after, "{")
               ELSE LET body == parse(s, after, PrecExpr)
                    IN IF ~body.ok THEN body
                       ELSE ParseOk(StructExpr(body.node), body.end)
            ELSE IF word = <<"i", "f">> THEN
               IF ~(HasChar(s, after) /\ s[after] = "(")
               THEN expected_string(after, "(")
               ELSE LET cond == parse(s, after, PrecExpr)
                    IN IF ~cond.ok THEN cond
                       ELSE LET conc == parse(s, skip_lines(s, cond.end),
                                              PrecExpr)
                            IN IF ~conc.ok THEN conc
                               ELSE ParseOk(IfExpr(cond.node, conc.node),
                                            conc.end)
            ELSE IF word = <<"t", "r", "u", "e">>
                    \/ word = <<"f", "a", "l", "s", "e">>
                 THEN ParseOk(BoolLiteral(word), end)
            ELSE ParseOk(Ident(word), end)
         ELSE expected_value(start)

\* parser.rs 101-132: the operator loop; each arm rebinds left and loops
parse_infix(s, left, prec) ==
    LET start == skip_spaces(s, left.end)
        has == HasChar(s, start)
        ch == IF has THEN s[start] ELSE ""
        pos == start + 1
    IN
    IF has /\ ch = "+" /\ prec < PrecSum THEN
       LET right == parse(s, skip_lines(s, pos), prec)
       IN IF ~right.ok THEN right
          ELSE parse_infix(s, ParseOk(new_binary(left.node, right.node, "Plus"),
                                      right.end), prec)
    ELSE IF has /\ ch = "=" /\ prec <= PrecExpr THEN
       LET right == parse(s, skip_lines(s, pos), PrecExpr)
       IN IF ~right.ok THEN right
          ELSE parse_infix(s, ParseOk(new_binary(left.node, right.node,
                                                 "SingleEquals"),
                                      right.end), prec)
    ELSE IF has /\ ch = "(" THEN
       LET right == parse(s, start, PrecTuple)
       IN IF ~right.ok THEN right
          ELSE parse_infix(s, ParseOk(new_binary(left.node, right.node,
                                                 "Bracket"),
                                      right.end), prec)
    ELSE IF has /\ ch = "," /\ prec <= PrecTuple THEN
       LET right == parse(s, skip_lines(s, pos), PrecTuple)
       IN IF ~right.ok THEN right
          ELSE parse_infix(s, ParseOk(new_tuple(left.node, right.node),
                                      right.end), prec)
    ELSE IF has /\ ch \in Alphabetic THEN
       LET end == next_while(s, start, Alphabetic)
           keyword == slice(s, start, end)
       IN IF keyword = <<"e", "l", "s", "e">>
          THEN LET right == parse(s, skip_lines(s, end), PrecExpr)
               IN IF ~right.ok THEN right
                  ELSE parse_infix(s, ParseOk(new_binary(left.node, right.node,
                                                         "Else"),
                                              right.end), prec)
          ELSE left
    ELSE LET p == skip_lines(s, start)
         IN IF HasChar(s, p) /\ s[p] # "}" /\ prec <= PrecBlock
            THEN LET right == parse(s, p, PrecExpr)
                 IN IF ~right.ok THEN right
                    ELSE parse_infix(s, ParseOk(new_block_expr(left.node,
                                                               right.node),
                                                right.end), prec)
            ELSE left

\* parser.rs 41-133
parse(s, start, prec) ==
    LET left == parse_prefix(s, start)
    IN IF left.ok THEN parse_infix(s, left, prec) ELSE left

\* parser.rs 135-137
parse_source(source) == parse(source, 1, PrecBlock)

(***************************************************************************)
(* IR (ir.rs).  Var, BlockId and FunctionId are their 0-based ids.  A      *)
(* Function additionally carries commits, a history field that counts for  *)
(* each block slot how often submit_block has written it.                  *)
(***************************************************************************)
AddInt(dest, a, b) == [op |-> "AddInt", dest |-> dest, a |-> a, b |-> b]

ConstantInt(dest, constant) ==
    [op |-> "ConstantInt", dest |-> dest, constant |-> constant]

Phi(dest, cond, a, b) ==
    [op |-> "Phi", dest |-> dest, cond |-> cond, a |-> a, b |-> b]

Call(function, args, returns) ==
    [op |-> "Call", function |-> function, args |-> args, returns |-> returns]

Return == [op |-> "Return"]

Branch(block) == [op |-> "Branch", block |-> block]

ConditionalBranch(cond, block1, block2) ==
    [op |-> "ConditionalBranch", cond |-> cond, block1 |-> block1,
     block2 |-> block2]

\* Function::new
FunctionNew ==
    [params |-> <<>>, returns |-> <<>>, variable_count |-> 0, blocks |-> <<>>,
     commits |-> <<>>]

\* C7, faulty variant of new_local_variable: the counter is handed out but
\* not incremented
new_local_variable_stuck(f) == [var |-> f.variable_count, function |-> f]

\* Function::new_local_variable: hands out the counter, then increments it
new_local_variable(f) ==
    [var |-> f.variable_count,
     function |-> [f EXCEPT !.variable_count = @ + 1]]

\* Function::new_parameter
new_parameter(f) ==
    LET r == new_local_variable(f)
    IN [var |-> r.var,
        function |-> [r.function EXCEPT !.params = Append(@, r.var)]]

\* Function::return_var
return_var(f, var) == [f EXCEPT !.returns = Append(@, var)]

\* Function::new_block: registers a slot and returns a copy of it
new_block(f) ==
    LET b == [id |-> Len(f.blocks), insts |-> <<>>, exit |-> Return]
    IN [block |-> b,
        function |-> [f EXCEPT !.blocks = Append(@, b),
                               !.commits = Append(@, 0)]]

\* C9, faulty variant of submit_block: the block is written to the slot
\* registered last instead of its own
submit_block_last(f, b) ==
    [f EXCEPT !.blocks[Len(f.blocks)] = b, !.commits[Len(f.blocks)] = @ + 1]

\* Function::submit_block: overwrites the slot the block was allocated at
submit_block(f, b) ==
    [f EXCEPT !.blocks[b.id + 1] = b, !.commits[b.id + 1] = @ + 1]

\* Block::add_int
add_int(b, x, y, f) ==
    LET r == new_local_variable(f)
    IN [var |-> r.var, function |-> r.function,
        block |-> [b EXCEPT !.insts = Append(@, AddInt(r.var, x, y))]]

\* Block::constant_int
constant_int(b, constant, f) ==
    LET r == new_local_variable(f)
    IN [var |-> r.var, function |-> r.function,
        block |-> [b EXCEPT !.insts = Append(@, ConstantInt(r.var, constant))]]

\* Block::phi
phi(b, cond, x, y, f) ==
    LET r == new_local_variable(f)
    IN [var |-> r.var, function |-> r.function,
        block |-> [b EXCEPT !.insts = Append(@, Phi(r.var, cond, x, y))]]

\* the loop of Block::call: return_count fresh variables, in order
RECURSIVE new_local_variables(_, _)
new_local_variables(f, n) ==
    IF n = 0 THEN [vars |-> <<>>, function |-> f]
    ELSE LET r == new_local_variable(f)
             rest == new_local_variables(r.function, n - 1)
         IN [vars |-> <<r.var>> \o rest.vars, function |-> rest.function]

\* Block::call
call(b, target_function_id, args, return_count, f) ==
    LET r == new_local_variables(f, return_count)
    IN [vars |-> r.vars, function |-> r.function,
        block |-> [b EXCEPT !.insts =
                       Append(@, Call(target_function_id, args, r.vars))]]

\* Block::ret(self, function): installs Return and commits
ret(b, f) == submit_block(f, [b EXCEPT !.exit = Return])

\* The block terminators compiler.rs calls without a function argument
\* (branch_if, branch, ret): they can only change the local block value.
\* branch_if installs the conditional exit with its taken arm; the
\* following branch supplies the other arm, so that the pair yields
\* ConditionalBranch{cond, first target, second target}.
NoBlock == 0 - 1

branch_if(b, cond, target) ==
    [b EXCEPT !.exit = ConditionalBranch(cond, target, NoBlock)]

branch(b, target) ==
    IF b.exit.op = "ConditionalBranch" /\ b.exit.block2 = NoBlock
    THEN [b EXCEPT !.exit.block2 = target]
    ELSE [b EXCEPT !.exit = Branch(target)]

ret_local(b) == [b EXCEPT !.exit = Return]

\* Program::add_function
add_function(prog, f) == [id |-> Len(prog), program |-> Append(prog, f)]

(***************************************************************************)
(* Types (types.rs).  impls of a Func is the address of its shared         *)
(* Rc<RefCell<Vec<Implementation>>> cell in the heap variable impls.       *)
(***************************************************************************)
TyInt(var) == [k |-> "Int", var |-> var]

TyBool(var) == [k |-> "Bool", var |-> var]

TyMaybe(var, ty) == [k |-> "Maybe", var |-> var, ty |-> ty]

TyTuple(types) == [k |-> "Tuple", types |-> types]

TyFunc(pattern, expr, cell) ==
    [k |-> "Func", pattern |-> pattern, expr |-> expr, impls |-> cell]

Implementation(param_ty, return_ty, function) ==
    [param_ty |-> param_ty, return_ty |-> return_ty, function |-> function]

\* impl PartialEq for Type
RECURSIVE type_eq(_, _)
type_eq(a, b) ==
    IF a.k = "Int" /\ b.k = "Int" THEN TRUE
    ELSE IF a.k = "Bool" /\ b.k = "Bool" THEN TRUE
    ELSE IF a.k = "Tuple" /\ b.k = "Tuple" /\ Len(a.types) = Len(b.types)
         THEN \A i \in 1..Len(a.types) : type_eq(a.types[i], b.types[i])
    ELSE FALSE

\* Type::size
RECURSIVE size(_)
RECURSIVE size_sum(_)
size_sum(types) ==
    IF types = <<>> THEN 0 ELSE size(Head(types)) + size_sum(Tail(types))

size(ty) ==
    IF ty.k = "Int" THEN 1
    ELSE IF ty.k = "Bool" THEN 1
    ELSE IF ty.k = "Maybe" THEN 1 + size(ty.ty)
    ELSE IF ty.k = "Tuple" THEN size_sum(ty.types)
    ELSE 0

\* Type::add_vars_to_vec
RECURSIVE add_vars_to_vec(_, _)
RECURSIVE add_vars_of_all(_, _)
add_vars_of_all(types, map) ==
    IF types = <<>> THEN map
    ELSE add_vars_of_all(Tail(types), add_vars_to_vec(Head(types), map))

add_vars_to_vec(ty, map) ==
    IF ty.k = "Int" THEN Append(map, ty.var)
    ELSE IF ty.k = "Bool" THEN Append(map, ty.var)
    ELSE IF ty.k = "Maybe" THEN add_vars_to_vec(ty.ty, Append(map, ty.var))
    ELSE IF ty.k = "Tuple" THEN add_vars_of_all(ty.types, map)
    ELSE map

\* Type::get_used_vars
get_used_vars(ty) == add_vars_to_vec(ty, <<>>)

\* Type::map_to; vars is a slice, indexing past its end faults
Drop(vars, n) == SubSeq(vars, n + 1, Len(vars))

RECURSIVE map_to(_, _)
RECURSIVE map_all_to(_, _)
map_all_to(types, vars) ==
    IF types = <<>> THEN <<>>
    ELSE LET n == size(Head(types))
         IN <<map_to(Head(types), SubSeq(vars, 1, n))>>
            \o map_all_to(Tail(types), Drop(vars, n))

\* C19, faulty variant of Type::map_to: the component of a Maybe is mapped
\* to the whole slice, the tag's variable included
map_to_whole_slice(ty, vars) ==
    IF ty.k = "Int" THEN TyInt(vars[1])
    ELSE IF ty.k = "Bool" THEN TyBool(vars[1])
    ELSE IF ty.k = "Maybe" THEN TyMaybe(vars[1], map_to(ty.ty, vars))
    ELSE IF ty.k = "Tuple" THEN TyTuple(map_all_to(ty.types, vars))
    ELSE ty

map_to(ty, vars) ==
    IF ty.k = "Int" THEN TyInt(vars[1])
    ELSE IF ty.k = "Bool" THEN TyBool(vars[1])
    ELSE IF ty.k = "Maybe" THEN TyMaybe(vars[1], map_to(ty.ty, Drop(vars, 1)))
    ELSE IF ty.k = "Tuple" THEN TyTuple(map_all_to(ty.types, vars))
    ELSE ty

\* the loop of Type::as_parameter_ty
RECURSIVE new_parameters(_, _)
new_parameters(f, n) ==
    IF n = 0 THEN [vars |-> <<>>, function |-> f]
    ELSE LET r == new_parameter(f)
             rest == new_parameters(r.function, n - 1)
         IN [vars |-> <<r.var>> \o rest.vars, function |-> rest.function]

\* C8, faulty variant of as_parameter_ty: the loop runs once too often
as_parameter_ty_one_more(ty, f) ==
    LET r == new_parameters(f, size(ty) + 1)
    IN [ty |-> map_to(ty, r.vars), function |-> r.function]

\* Type::as_parameter_ty
as_parameter_ty(ty, f) ==
    LET r == new_parameters(f, size(ty))
    IN [ty |-> map_to(ty, r.vars), function |-> r.function]

\* Type::return_ty
RECURSIVE return_vars(_, _)
return_vars(f, vars) ==
    IF vars = <<>> THEN f
    ELSE return_vars(return_var(f, Head(vars)), Tail(vars))

return_ty(ty, f) == return_vars(f, get_used_vars(ty))

\* Type::merge; ok = FALSE is the unimplemented!() arm
RECURSIVE merge(_, _, _, _, _)
RECURSIVE merge_all(_, _, _, _, _)
merge_all(cond, atypes, btypes, f, b) ==
    IF atypes = <<>> \/ btypes = <<>>
    THEN [ok |-> TRUE, types |-> <<>>, function |-> f, block |-> b]
    ELSE LET m == merge(cond, Head(atypes), Head(btypes), f, b)
         IN IF ~m.ok
            THEN [ok |-> FALSE, types |-> <<>>, function |-> m.function,
                  block |-> m.block]
            ELSE LET rest == merge_all(cond, Tail(atypes), Tail(btypes),
                                       m.function, m.block)
                 IN [ok |-> rest.ok, types |-> <<m.ty>> \o rest.types,
                     function |-> rest.function, block |-> rest.block]

merge(cond, a, b, f, blk) ==
    IF a.k = "Int" /\ b.k = "Int" THEN
       LET r == phi(blk, cond, a.var, b.var, f)
       IN [ok |-> TRUE, ty |-> TyInt(r.var), function |-> r.function,
           block |-> r.block]
    ELSE IF a.k = "Bool" /\ b.k = "Bool" THEN
       LET r == phi(blk, cond, a.var, b.var, f)
       IN [ok |-> TRUE, ty |-> TyBool(r.var), function |-> r.function,
           block |-> r.block]
    ELSE IF a.k = "Tuple" /\ b.k = "Tuple" /\ Len(a.types) = Len(b.types) THEN
       LET r == merge_all(cond, a.types, b.types, f, blk)
       IN [ok |-> r.ok, ty |-> TyTuple(r.types), function |-> r.function,
           block |-> r.block]
    ELSE [ok |-> FALSE, ty |-> a, function |-> f, block |-> blk]

(***************************************************************************)
(* Scope (scope.rs): the chain of Definition frames, innermost last.       *)
(***************************************************************************)
ScopeNew == <<>>

\* ScopeNode::get: the innermost frame with the name
RECURSIVE scope_get(_, _)
scope_get(sc, search) ==
    IF sc = <<>> THEN [some |-> FALSE]
    ELSE IF sc[Len(sc)].name = search
         THEN [some |-> TRUE, ty |-> sc[Len(sc)].ty]
         ELSE scope_get(SubSeq(sc, 1, Len(sc) - 1), search)

\* ScopeNode::assign: overwrite the innermost frame with the name, if any
RECURSIVE node_assign(_, _, _)
node_assign(sc, search, new_ty) ==
    IF sc = <<>> THEN [could_assign |-> FALSE, scope |-> sc]
    ELSE IF sc[Len(sc)].name = search
         THEN [could_assign |-> TRUE,
               scope |-> [sc EXCEPT ![Len(sc)].ty = new_ty]]
         ELSE LET r == node_assign(SubSeq(sc, 1, Len(sc) - 1), search, new_ty)
              IN [could_assign |-> r.could_assign,
                  scope |-> Append(r.scope, sc[Len(sc)])]

\* C18, faulty variant of Scope::assign: a frame is pushed without looking
\* for the name in the chain
scope_assign_push(sc, name, ty) == Append(sc, [name |-> name, ty |-> ty])

\* Scope::assign
scope_assign(sc, name, ty) ==
    LET r == node_assign(sc, name, ty)
    IN IF r.could_assign THEN r.scope
       ELSE Append(sc, [name |-> name, ty |-> ty])

(***************************************************************************)
(* compiler.rs helpers                                                     *)
(***************************************************************************)
\* C21, faulty variant of call_function: the implementation's return type
\* is handed to the caller as stored, with the callee's variables
call_function_stored_ty(imp, argument_ty, f, b) ==
    LET r == call(b, imp.function, get_used_vars(argument_ty),
                  size(imp.return_ty), f)
    IN [ty |-> imp.return_ty, function |-> r.function, block |-> r.block]

\* call_function
call_function(imp, argument_ty, f, b) ==
    LET r == call(b, imp.function, get_used_vars(argument_ty),
                  size(imp.return_ty), f)
    IN [ty |-> map_to(imp.return_ty, r.vars), function |-> r.function,
        block |-> r.block]

\* match_pattern; res is "ok", "TypeError" or "unimplemented"
RECURSIVE match_pattern(_, _, _)
RECURSIVE match_patterns(_, _, _)
match_patterns(patterns, types, sc) ==
    IF patterns = <<>> \/ types = <<>> THEN [res |-> "ok", scope |-> sc]
    ELSE LET r == match_pattern(Head(patterns), Head(types), sc)
         IN IF r.res # "ok" THEN r
            ELSE match_patterns(Tail(patterns), Tail(types), r.scope)

match_pattern(pattern, ty, sc) ==
    IF pattern.k = "Ident"
    THEN [res |-> "ok", scope |-> scope_assign(sc, pattern.lex, ty)]
    ELSE IF pattern.k = "Tuple"
    THEN IF ty.k = "Tuple" /\ Len(ty.types) = Len(pattern.exprs)
         THEN match_patterns(pattern.exprs, ty.types, sc)
         ELSE [res |-> "TypeError", scope |-> sc]
    ELSE [res |-> "unimplemented", scope |-> sc]

\* the first implementation whose param_ty equals argument_ty (0: none)
find_impl(list, argument_ty) ==
    LET hits == {i \in 1..Len(list) : type_eq(list[i].param_ty, argument_ty)}
    IN IF hits = {} THEN 0
       ELSE CHOOSE i \in hits : \A j \in hits : i <= j

\* str::parse::<i32> of a run of digits
DigitValue(ch) ==
    CASE ch = "0" -> 0 [] ch = "1" -> 1 [] ch = "2" -> 2 [] ch = "3" -> 3
      [] ch = "4" -> 4 [] ch = "5" -> 5 [] ch = "6" -> 6 [] ch = "7" -> 7
      [] ch = "8" -> 8 [] ch = "9" -> 9

I32Max == 2147483647

\* the digits are accumulated left to right; a value past i32::MAX is an Err
RECURSIVE parse_i32_from(_, _)
parse_i32_from(lex, acc) ==
    IF lex = <<>> THEN [ok |-> TRUE, value |-> acc]
    ELSE LET d == DigitValue(Head(lex))
         IN IF acc > (I32Max - d) \div 10 THEN [ok |-> FALSE, value |-> 0]
            ELSE parse_i32_from(Tail(lex), 10 * acc + d)

parse_i32(lex) == parse_i32_from(lex, 0)

(***************************************************************************)
(* State                                                                   *)
(***************************************************************************)
VARIABLES
    pc,        \* "parse", "compile", "exec", "done", or how the run failed
    src,       \* the source text (example.txt)
    err,       \* the error the run failed with, "" if none
    program,   \* Program.functions
    function,  \* the Function being built (compile's function argument)
    block,     \* the block cursor (compile's block argument)
    scope,     \* compile's scope argument
    impls,     \* heap of impls cells: impls[c] is the Vec behind address c
    stack,     \* suspended invocations of compile, innermost last
    ctl,       \* the expression to compile, or the Type just returned
    created,   \* number of Function::new calls so far
    owner,     \* history: owner[i] is the impls cell program[i] was compiled
               \* for, 0 for main
    unit,      \* operands and outcome of a type operation applied on its own
    regs,      \* VirtualMachine.register_file
    frames,    \* suspended and running invocations of execute, running last
    result     \* the values main.rs prints

compilerVars ==
    <<program, function, block, scope, impls, stack, ctl, created, owner>>

vmVars == <<regs, frames, result>>

vars == <<pc, src, err, program, function, block, scope, impls, stack, ctl,
          created, owner, unit, regs, frames, result>>

Eval(expr) == [mode |-> "eval", x |-> expr]

Ret(ty) == [mode |-> "ret", x |-> ty]

Idle == [mode |-> "idle", x |-> <<>>]

Top == stack[Len(stack)]

Pop == SubSeq(stack, 1, Len(stack) - 1)

Push(fr) == Append(stack, fr)

Replace(fr) == Append(Pop, fr)

Evaluating(kind) == pc = "compile" /\ ctl.mode = "eval" /\ ctl.x.k = kind

EvaluatingOp(op) == Evaluating("Binary") /\ ctl.x.op = op

Returning(kind) ==
    pc = "compile" /\ ctl.mode = "ret" /\ stack # <<>> /\ Top.k = kind

\* a CompileError propagated by ? up to main's unwrap
Fail(kind) ==
    /\ pc' = "compile_error"
    /\ err' = kind
    /\ UNCHANGED <<src, unit, compilerVars, vmVars>>

\* unimplemented!() and unwrap() on a failed integer parse
Panic(what) ==
    /\ pc' = "panic"
    /\ err' = what
    /\ UNCHANGED <<src, unit, compilerVars, vmVars>>

(***************************************************************************)
(* Inputs                                                                  *)
(***************************************************************************)
MaxFunctions == 5

NoUnit == [op |-> "none"]

(***************************************************************************)
(* main.rs: read, parse, and set up the main function                      *)
(***************************************************************************)
\* main.rs 16-23
ParseSource ==
    /\ pc = "parse"
    /\ LET parsed == parse_source(src)
       IN IF ~parsed.ok
          THEN /\ pc' = "parse_error"
               /\ err' = parsed.err
               /\ UNCHANGED <<src, unit, compilerVars, vmVars>>
          ELSE LET nb == new_block(FunctionNew)
               IN /\ pc' = "compile"
                  /\ function' = nb.function
                  /\ block' = nb.block
                  /\ created' = created + 1
                  /\ ctl' = Eval(parsed.node)
                  /\ UNCHANGED <<src, unit, err, program, scope, impls, stack,
                                 owner, vmVars>>

(***************************************************************************)
(* compiler.rs: compile, one match arm or resumption point per action      *)
(***************************************************************************)
\* compiler.rs 33-36
CompileIntLiteral ==
    /\ Evaluating("IntLiteral")
    /\ LET value == parse_i32(ctl.x.lex)
       IN IF ~value.ok THEN Panic("unwrap")
          ELSE LET r == constant_int(block, value.value, function)
               IN /\ block' = r.block
                  /\ function' = r.function
                  /\ ctl' = Ret(TyInt(r.var))
                  /\ UNCHANGED <<pc, src, unit, err, program, scope, impls,
                                 stack, created, owner, vmVars>>

\* compiler.rs 133-135
CompileBoolLiteral ==
    /\ Evaluating("BoolLiteral")
    /\ LET r == constant_int(block,
                             IF ctl.x.lex = <<"t", "r", "u", "e">> THEN 1 ELSE 0,
                             function)
       IN /\ block' = r.block
          /\ function' = r.function
          /\ ctl' = Ret(TyBool(r.var))
          /\ UNCHANGED <<pc, src, unit, err, program, scope, impls, stack,
                         created, owner, vmVars>>

\* compiler.rs 121-124
CompileIdent ==
    /\ Evaluating("Ident")
    /\ LET found == scope_get(scope, ctl.x.lex)
       IN IF ~found.some THEN Fail("UndefinedVariable")
          ELSE /\ ctl' = Ret(found.ty)
               /\ UNCHANGED <<pc, src, unit, err, program, function, block,
                              scope, impls, stack, created, owner, vmVars>>

\* compiler.rs 125-132: a fresh impls cell; a named fn is bound in scope
CompileFunc ==
    /\ Evaluating("Func")
    /\ LET func == TyFunc(ctl.x.pattern, ctl.x.expr, Len(impls) + 1)
       IN /\ impls' = Append(impls, <<>>)
          /\ scope' = IF ctl.x.name.some
                      THEN scope_assign(scope, ctl.x.name.lex, func)
                      ELSE scope
          /\ ctl' = Ret(func)
          /\ UNCHANGED <<pc, src, unit, err, program, function, block, stack,
                         created, owner, vmVars>>

\* compiler.rs 108-110: enter the loop over the elements
CompileTuple ==
    /\ Evaluating("Tuple")
    /\ IF ctl.x.exprs = <<>>
       THEN /\ ctl' = Ret(TyTuple(<<>>))
            /\ UNCHANGED stack
       ELSE /\ stack' = Push([k |-> "Tuple", exprs |-> ctl.x.exprs, i |-> 1,
                              types |-> <<>>])
            /\ ctl' = Eval(ctl.x.exprs[1])
    /\ UNCHANGED <<pc, src, unit, err, program, function, block, scope, impls,
                   created, owner, vmVars>>

\* compiler.rs 111-113: one element compiled
TupleElement ==
    /\ Returning("Tuple")
    /\ LET types == Append(Top.types, ctl.x)
       IN IF Top.i < Len(Top.exprs)
          THEN /\ stack' = Replace([Top EXCEPT !.i = @ + 1, !.types = types])
               /\ ctl' = Eval(Top.exprs[Top.i + 1])
          ELSE /\ stack' = Pop
               /\ ctl' = Ret(TyTuple(types))
    /\ UNCHANGED <<pc, src, unit, err, program, function, block, scope, impls,
                   created, owner, vmVars>>

\* compiler.rs 115-119: enter the loop over exprs, or go straight to last
CompileBlock ==
    /\ Evaluating("Block")
    /\ IF ctl.x.exprs = <<>>
       THEN /\ ctl' = Eval(ctl.x.last)
            /\ UNCHANGED stack
       ELSE /\ stack' = Push([k |-> "Block", exprs |-> ctl.x.exprs, i |-> 1,
                              last |-> ctl.x.last])
            /\ ctl' = Eval(ctl.x.exprs[1])
    /\ UNCHANGED <<pc, src, unit, err, program, function, block, scope, impls,
                   created, owner, vmVars>>

\* compiler.rs 116-119: a prefix expression compiled, its type dropped
BlockStatement ==
    /\ Returning("Block")
    /\ IF Top.i < Len(Top.exprs)
       THEN /\ stack' = Replace([Top EXCEPT !.i = @ + 1])
            /\ ctl' = Eval(Top.exprs[Top.i + 1])
       ELSE /\ stack' = Pop
            /\ ctl' = Eval(Top.last)
    /\ UNCHANGED <<pc, src, unit, err, program, function, block, scope, impls,
                   created, owner, vmVars>>

\* compiler.rs 38-39
CompilePlus ==
    /\ EvaluatingOp("Plus")
    /\ stack' = Push([k |-> "PlusLeft", right |-> ctl.x.right])
    /\ ctl' = Eval(ctl.x.left)
    /\ UNCHANGED <<pc, src, unit, err, program, function, block, scope, impls,
                   created, owner, vmVars>>

\* compiler.rs 39-40
PlusLeft ==
    /\ Returning("PlusLeft")
    /\ stack' = Replace([k |-> "PlusRight", left |-> ctl.x])
    /\ ctl' = Eval(Top.right)
    /\ UNCHANGED <<pc, src, unit, err, program, function, block, scope, impls,
                   created, owner, vmVars>>

\* compiler.rs 41-44
PlusRight ==
    /\ Returning("PlusRight")
    /\ IF Top.left.k = "Int" /\ ctl.x.k = "Int"
       THEN LET r == add_int(block, Top.left.var, ctl.x.var, function)
            IN /\ block' = r.block
               /\ function' = r.function
               /\ stack' = Pop
               /\ ctl' = Ret(TyInt(r.var))
               /\ UNCHANGED <<pc, src, unit, err, program, scope, impls,
                              created, owner, vmVars>>
       ELSE Fail("TypeError")

\* compiler.rs 73-74
CompileSingleEquals ==
    /\ EvaluatingOp("SingleEquals")
    /\ stack' = Push([k |-> "SingleEquals", left |-> ctl.x.left])
    /\ ctl' = Eval(ctl.x.right)
    /\ UNCHANGED <<pc, src, unit, err, program, function, block, scope, impls,
                   created, owner, vmVars>>

\* compiler.rs 75-76
SingleEqualsRight ==
    /\ Returning("SingleEquals")
    /\ LET m == match_pattern(Top.left, ctl.x, scope)
       IN IF m.res = "TypeError" THEN Fail("TypeError")
          ELSE IF m.res = "unimplemented" THEN Panic("unimplemented")
          ELSE /\ scope' = m.scope
               /\ stack' = Pop
               /\ ctl' = Ret(ctl.x)
               /\ UNCHANGED <<pc, src, unit, err, program, function, block,
                              impls, created, owner, vmVars>>

\* compiler.rs 46-47
CompileBracket ==
    /\ EvaluatingOp("Bracket")
    /\ stack' = Push([k |-> "BracketLeft", right |-> ctl.x.right])
    /\ ctl' = Eval(ctl.x.left)
    /\ UNCHANGED <<pc, src, unit, err, program, function, block, scope, impls,
                   created, owner, vmVars>>

\* compiler.rs 47-49, 70
BracketLeft ==
    /\ Returning("BracketLeft")
    /\ IF ctl.x.k = "Func"
       THEN /\ stack' = Replace([k |-> "BracketRight", func |-> ctl.x])
            /\ ctl' = Eval(Top.right)
            /\ UNCHANGED <<pc, src, unit, err, program, function, block, scope,
                           impls, created, owner, vmVars>>
       ELSE Fail("TypeError")

\* compiler.rs 50-54: an implementation with an equal param_ty is called
CallImplementation ==
    /\ Returning("BracketRight")
    /\ LET argument_ty == ctl.x
           list == impls[Top.func.impls]
           i == find_impl(list, argument_ty)
       IN /\ i # 0
          /\ LET c == call_function(list[i], argument_ty, function, block)
             IN /\ function' = c.function
                /\ block' = c.block
                /\ stack' = Pop
                /\ ctl' = Ret(c.ty)
    /\ UNCHANGED <<pc, src, unit, err, program, scope, impls, created, owner,
                   vmVars>>

\* C12, faulty variant of Monomorphise: the pattern is matched into the
\* caller's scope, so the body sees the names of the call site
Monomorphise_enclosing_scope ==
    /\ Returning("BracketRight")
    /\ created < MaxFunctions
    /\ LET argument_ty == ctl.x
           func == Top.func
           nb == new_block(FunctionNew)
           p == as_parameter_ty(argument_ty, nb.function)
           m == match_pattern(func.pattern, p.ty, scope)
       IN /\ find_impl(impls[func.impls], argument_ty) = 0
          /\ IF m.res = "TypeError" THEN Fail("TypeError")
             ELSE IF m.res = "unimplemented" THEN Panic("unimplemented")
             ELSE /\ stack' = Replace([k |-> "BracketBody", func |-> func,
                                       argument_ty |-> argument_ty,
                                       param_ty |-> p.ty,
                                       function |-> function,
                                       block |-> block, scope |-> scope])
                  /\ function' = p.function
                  /\ block' = nb.block
                  /\ scope' = m.scope
                  /\ created' = created + 1
                  /\ ctl' = Eval(func.expr)
                  /\ UNCHANGED <<pc, src, unit, err, program, impls, owner,
                                 vmVars>>

\* compiler.rs 50-60: no implementation matches; a new function is opened
\* and its body compiled in a new scope holding the pattern's names
Monomorphise ==
    /\ Returning("BracketRight")
    /\ created < MaxFunctions
    /\ LET argument_ty == ctl.x
           func == Top.func
           nb == new_block(FunctionNew)
           p == as_parameter_ty(argument_ty, nb.function)
           m == match_pattern(func.pattern, p.ty, ScopeNew)
       IN /\ find_impl(impls[func.impls], argument_ty) = 0
          /\ IF m.res = "TypeError" THEN Fail("TypeError")
             ELSE IF m.res = "unimplemented" THEN Panic("unimplemented")
             ELSE /\ stack' = Replace([k |-> "BracketBody", func |-> func,
                                       argument_ty |-> argument_ty,
                                       param_ty |-> p.ty,
                                       function |-> function,
                                       block |-> block, scope |-> scope])
                  /\ function' = p.function
                  /\ block' = nb.block
                  /\ scope' = m.scope
                  /\ created' = created + 1
                  /\ ctl' = Eval(func.expr)
                  /\ UNCHANGED <<pc, src, unit, err, program, impls, owner,
                                 vmVars>>

\* C10, faulty variant of BracketBody: the implementation is pushed onto a
\* private copy of the list, so the shared list does not receive it
BracketBody_private_list ==
    /\ Returning("BracketBody")
    /\ LET ty == ctl.x
           f1 == return_ty(ty, function)
           f2 == submit_block(f1, ret_local(block))
           added == add_function(program, f2)
           imp == Implementation(Top.param_ty, ty, added.id)
           c == call_function(imp, Top.argument_ty, Top.function, Top.block)
       IN /\ program' = added.program
          /\ function' = c.function
          /\ block' = c.block
          /\ scope' = Top.scope
          /\ stack' = Pop
          /\ ctl' = Ret(c.ty)
          /\ owner' = Append(owner, Top.func.impls)
          /\ UNCHANGED <<pc, src, unit, err, impls, created, vmVars>>

\* C20, faulty variant of BracketBody: the implementation records the id
\* that the next function added to the program will get
BracketBody_next_id ==
    /\ Returning("BracketBody")
    /\ LET ty == ctl.x
           f1 == return_ty(ty, function)
           f2 == submit_block(f1, ret_local(block))
           added == add_function(program, f2)
           imp == Implementation(Top.param_ty, ty, added.id + 1)
           c == call_function(imp, Top.argument_ty, Top.function, Top.block)
       IN /\ program' = added.program
          /\ function' = c.function
          /\ block' = c.block
          /\ scope' = Top.scope
          /\ impls' = [impls EXCEPT ![Top.func.impls] = Append(@, imp)]
          /\ stack' = Pop
          /\ ctl' = Ret(c.ty)
          /\ owner' = Append(owner, Top.func.impls)
          /\ UNCHANGED <<pc, src, unit, err, created, vmVars>>

\* compiler.rs 60-68: the body is compiled; the function is finished, added
\* to the program and called, and the implementation is recorded
BracketBody ==
    /\ Returning("BracketBody")
    /\ LET ty == ctl.x
           f1 == return_ty(ty, function)
           f2 == submit_block(f1, ret_local(block))
           added == add_function(program, f2)
           imp == Implementation(Top.param_ty, ty, added.id)
           c == call_function(imp, Top.argument_ty, Top.function, Top.block)
       IN /\ program' = added.program
          /\ function' = c.function
          /\ block' = c.block
          /\ scope' = Top.scope
          /\ impls' = [impls EXCEPT ![Top.func.impls] = Append(@, imp)]
          /\ stack' = Pop
          /\ ctl' = Ret(c.ty)
          /\ owner' = Append(owner, Top.func.impls)
          /\ UNCHANGED <<pc, src, unit, err, created, vmVars>>

\* compiler.rs 78-79
CompileElse ==
    /\ EvaluatingOp("Else")
    /\ stack' = Push([k |-> "ElseLeft", right |-> ctl.x.right])
    /\ ctl' = Eval(ctl.x.left)
    /\ UNCHANGED <<pc, src, unit, err, program, function, block, scope, impls,
                   created, owner, vmVars>>

\* compiler.rs 79-82, 87-89
ElseLeft ==
    /\ Returning("ElseLeft")
    /\ IF ctl.x.k = "Maybe"
       THEN LET nb == new_block(function)
            IN /\ function' = nb.function
               /\ block' = branch_if(block, ctl.x.var, nb.block.id)
               /\ stack' = Replace([k |-> "ElseRight", tag |-> ctl.x.var,
                                    ty |-> ctl.x.ty,
                                    exit_block |-> nb.block])
               /\ ctl' = Eval(Top.right)
               /\ UNCHANGED <<pc, src, unit, err, program, scope, impls,
                              created, owner, vmVars>>
       ELSE Fail("TypeError")

\* compiler.rs 82-86
ElseRight ==
    /\ Returning("ElseRight")
    /\ LET b1 == branch(block, Top.exit_block.id)
           f1 == submit_block(function, b1)
           m == merge(Top.tag, Top.ty, ctl.x, f1, Top.exit_block)
       IN IF ~m.ok THEN Panic("unimplemented")
          ELSE /\ function' = m.function
               /\ block' = m.block
               /\ stack' = Pop
               /\ ctl' = Ret(m.ty)
               /\ UNCHANGED <<pc, src, unit, err, program, scope, impls,
                              created, owner, vmVars>>

\* compiler.rs 92-93
CompileIf ==
    /\ Evaluating("If")
    /\ stack' = Push([k |-> "IfCond", conc |-> ctl.x.conc])
    /\ ctl' = Eval(ctl.x.cond)
    /\ UNCHANGED <<pc, src, unit, err, program, function, block, scope, impls,
                   created, owner, vmVars>>

\* compiler.rs 93-96, 104-106: conc is compiled with cond_block as cursor
IfCond ==
    /\ Returning("IfCond")
    /\ IF ctl.x.k = "Bool"
       THEN LET cb == new_block(function)
                eb == new_block(cb.function)
            IN /\ function' = eb.function
               /\ stack' = Replace([k |-> "IfConc", cond |-> ctl.x.var,
                                    block |-> block,
                                    exit_block |-> eb.block])
               /\ block' = cb.block
               /\ ctl' = Eval(Top.conc)
               /\ UNCHANGED <<pc, src, unit, err, program, scope, impls,
                              created, owner, vmVars>>
       ELSE Fail("TypeError")

\* compiler.rs 96-103: the cursor is what compile left in cond_block
IfConc ==
    /\ Returning("IfConc")
    /\ LET cond_block == block
           exit_id == Top.exit_block.id
           b1 == branch_if(Top.block, Top.cond, cond_block.id)
           cb == branch(cond_block, exit_id)
           b2 == branch(b1, exit_id)
           f1 == submit_block(function, b2)
           f2 == submit_block(f1, cb)
       IN /\ function' = f2
          /\ block' = Top.exit_block
          /\ stack' = Pop
          /\ ctl' = Ret(TyMaybe(Top.cond, ctl.x))
    /\ UNCHANGED <<pc, src, unit, err, program, scope, impls, created, owner,
                   vmVars>>

(***************************************************************************)
(* main.rs and execute.rs: finish main, then interpret it                  *)
(***************************************************************************)
\* Program::get_variable_count sizes the one register file of the machine;
\* it has to hold every function's variables
RECURSIVE max_variable_count(_)
max_variable_count(prog) ==
    IF prog = <<>> THEN 0
    ELSE LET rest == max_variable_count(Tail(prog))
             n == Head(prog).variable_count
         IN IF n > rest THEN n ELSE rest

get_variable_count(prog) == max_variable_count(prog)

\* VirtualMachine::new
register_file_new(prog) == [i \in 1..get_variable_count(prog) |-> 0]

\* VirtualMachine::get_register / set_register
get_register(file, reg) == file[reg + 1]

set_register(file, reg, value) == [file EXCEPT ![reg + 1] = value]

\* main.rs 24-31: compile returned Ok; main is finished and added, and the
\* machine is set to execute it from its entry block
FinishMain ==
    /\ pc = "compile"
    /\ ctl.mode = "ret"
    /\ stack = <<>>
    /\ LET f1 == ret(block, function)
           f2 == return_ty(ctl.x, f1)
           added == add_function(program, f2)
       IN /\ program' = added.program
          /\ regs' = register_file_new(added.program)
          /\ frames' = <<[fn |-> added.id, blk |-> 0, ip |-> 1,
                          before |-> <<>>]>>
    /\ pc' = "exec"
    /\ ctl' = Ret(ctl.x)
    /\ owner' = Append(owner, 0)
    /\ UNCHANGED <<src, unit, err, function, block, scope, impls, stack,
                   created, result>>

Running == frames[Len(frames)]

RunningFunction == program[Running.fn + 1]

RunningBlock == RunningFunction.blocks[Running.blk + 1]

AtInstruction(op) ==
    /\ pc = "exec"
    /\ Running.ip <= Len(RunningBlock.insts)
    /\ RunningBlock.insts[Running.ip].op = op

AtExit(op) ==
    /\ pc = "exec"
    /\ Running.ip > Len(RunningBlock.insts)
    /\ RunningBlock.exit.op = op

Inst == RunningBlock.insts[Running.ip]

Advance == [frames EXCEPT ![Len(frames)].ip = @ + 1]

Goto(block_id) == [frames EXCEPT ![Len(frames)].blk = block_id,
                                 ![Len(frames)].ip = 1]

\* i32 addition: an overflow wraps, or aborts a build with overflow checks
I32Min == 0 - I32Max - 1

Overflows(a, b) ==
    \/ a > 0 /\ b > 0 /\ a > I32Max - b
    \/ a < 0 /\ b < 0 /\ a < I32Min - b

Wrapped(a, b) ==
    IF a > 0 THEN (a - I32Max - 1) + (b - I32Max - 1)
    ELSE (a + I32Max + 1) + (b + I32Max + 1)

AddOutcomes(a, b) ==
    IF Overflows(a, b)
    THEN {[panic |-> FALSE, value |-> Wrapped(a, b)],
          [panic |-> TRUE, value |-> 0]}
    ELSE {[panic |-> FALSE, value |-> a + b]}

\* execute.rs 20-24
ExecAddInt ==
    /\ AtInstruction("AddInt")
    /\ \E o \in AddOutcomes(get_register(regs, Inst.a),
                            get_register(regs, Inst.b)) :
          IF o.panic
          THEN /\ pc' = "panic"
               /\ err' = "overflow"
               /\ UNCHANGED <<regs, frames>>
          ELSE /\ regs' = set_register(regs, Inst.dest, o.value)
               /\ frames' = Advance
               /\ UNCHANGED <<pc, err>>
    /\ UNCHANGED <<src, unit, compilerVars, result>>

\* execute.rs 25-27
ExecConstantInt ==
    /\ AtInstruction("ConstantInt")
    /\ regs' = set_register(regs, Inst.dest, Inst.constant)
    /\ frames' = Advance
    /\ UNCHANGED <<pc, src, unit, err, compilerVars, result>>

\* execute.rs 28-35
ExecPhi ==
    /\ AtInstruction("Phi")
    /\ LET value == IF get_register(regs, Inst.cond) # 0
                    THEN get_register(regs, Inst.a)
                    ELSE get_register(regs, Inst.b)
       IN regs' = set_register(regs, Inst.dest, value)
    /\ frames' = Advance
    /\ UNCHANGED <<pc, src, unit, err, compilerVars, result>>

\* the two copy loops of the Call arm: zip pairs, copied one after another
RECURSIVE copy_registers(_, _, _)
copy_registers(file, dests, sources) ==
    IF dests = <<>> \/ sources = <<>> THEN file
    ELSE copy_registers(set_register(file, Head(dests),
                                     get_register(file, Head(sources))),
                        Tail(dests), Tail(sources))

\* execute.rs 36-42: arguments are copied into the callee's parameters in
\* the machine's register file and the callee is entered
ExecCall ==
    /\ AtInstruction("Call")
    /\ LET callee == program[Inst.function + 1]
       IN /\ regs' = copy_registers(regs, callee.params, Inst.args)
          /\ frames' = Append(frames, [fn |-> Inst.function, blk |-> 0,
                                       ip |-> 1, before |-> regs])
    /\ UNCHANGED <<pc, src, unit, err, compilerVars, result>>

\* execute.rs 51
ExecBranch ==
    /\ AtExit("Branch")
    /\ frames' = Goto(RunningBlock.exit.block)
    /\ UNCHANGED <<pc, src, unit, err, compilerVars, regs, result>>

\* execute.rs 52-58
ExecConditionalBranch ==
    /\ AtExit("ConditionalBranch")
    /\ frames' = IF get_register(regs, RunningBlock.exit.cond) # 0
                 THEN Goto(RunningBlock.exit.block1)
                 ELSE Goto(RunningBlock.exit.block2)
    /\ UNCHANGED <<pc, src, unit, err, compilerVars, regs, result>>

\* execute.rs 59, 43-46: the callee returns; its return variables are
\* copied into the Call's returns and the caller goes on
ExecReturnToCaller ==
    /\ AtExit("Return")
    /\ Len(frames) > 1
    /\ LET caller == frames[Len(frames) - 1]
           call_inst == program[caller.fn + 1].blocks[caller.blk + 1]
                            .insts[caller.ip]
       IN /\ regs' = copy_registers(regs, call_inst.returns,
                                    RunningFunction.returns)
          /\ frames' = [SubSeq(frames, 1, Len(frames) - 1)
                            EXCEPT ![Len(frames) - 1].ip = @ + 1]
    /\ UNCHANGED <<pc, src, unit, err, compilerVars, result>>

\* execute.rs 59 and main.rs 33-35: main returns; its return variables are
\* printed
ExecReturnMain ==
    /\ AtExit("Return")
    /\ Len(frames) = 1
    /\ result' = [i \in 1..Len(RunningFunction.returns) |->
                     get_register(regs, RunningFunction.returns[i])]
    /\ pc' = "done"
    /\ UNCHANGED <<src, unit, err, compilerVars, regs, frames>>

(***************************************************************************)
(* register_allocator.rs.  The interference graph is the sequence of its   *)
(* nodes in the order init_var creates them (the newest node is the head   *)
(* of the next chain); an Rc<Graph> is the index of its node.              *)
(***************************************************************************)
\* uses[var.get_id()] += 1
count_use(uses, var) == [uses EXCEPT ![var + 1] = @ + 1]

RECURSIVE count_uses_of_all(_, _)
count_uses_of_all(uses, vs) ==
    IF vs = <<>> THEN uses
    ELSE count_uses_of_all(count_use(uses, Head(vs)), Tail(vs))

\* the operands an instruction reads, in the order the passes visit them
operands(inst) ==
    CASE inst.op = "AddInt" -> <<inst.a, inst.b>>
      [] inst.op = "Phi" -> <<inst.cond, inst.a, inst.b>>
      [] inst.op = "Call" -> inst.args
      [] OTHER -> <<>>

RECURSIVE count_uses_in_insts(_, _)
count_uses_in_insts(insts, uses) ==
    IF insts = <<>> THEN uses
    ELSE count_uses_in_insts(Tail(insts),
                             count_uses_of_all(uses, operands(Head(insts))))

\* register_allocator.rs 35-66
count_uses_in_block(b, uses, queue) ==
    LET counted == count_uses_in_insts(b.insts, uses)
    IN CASE b.exit.op = "Branch" ->
              [uses |-> counted, queue |-> Append(queue, b.exit.block)]
         [] b.exit.op = "ConditionalBranch" ->
              [uses |-> count_use(counted, b.exit.cond),
               queue |-> queue \o <<b.exit.block1, b.exit.block2>>]
         [] OTHER -> [uses |-> counted, queue |-> queue]

\* register_allocator.rs 23-26: the queue is popped at its end and holds no
\* record of the blocks already visited
RECURSIVE count_uses_in_queue(_, _, _)
count_uses_in_queue(f, uses, queue) ==
    IF queue = <<>> THEN uses
    ELSE LET block_id == queue[Len(queue)]
             r == count_uses_in_block(f.blocks[block_id + 1], uses,
                                      SubSeq(queue, 1, Len(queue) - 1))
         IN count_uses_in_queue(f, r.uses, r.queue)

\* register_allocator.rs 20-33
count_uses_in_function(f) ==
    count_uses_of_all(
        count_uses_in_queue(f, [i \in 1..f.variable_count |-> 0], <<0>>),
        f.returns)

\* Vec::swap_remove
swap_remove(vec, i) ==
    IF i = Len(vec) THEN SubSeq(vec, 1, Len(vec) - 1)
    ELSE [j \in 1..(Len(vec) - 1) |-> IF j = i THEN vec[Len(vec)] ELSE vec[j]]

\* register_allocator.rs 121-125; al is [graph, live_vars, uses, queue]
init_var(var, al) ==
    LET node == [var |-> var, interference |-> al.live_vars]
    IN [al EXCEPT !.graph = Append(@, node),
                  !.live_vars = Append(@, Len(al.graph) + 1)]

RECURSIVE remove_var(_, _, _, _)
remove_var(graph, live_vars, v, i) ==
    IF i > Len(live_vars) THEN live_vars
    ELSE IF graph[live_vars[i]].var = v
    THEN remove_var(graph, swap_remove(live_vars, i), v, i)
    ELSE remove_var(graph, live_vars, v, i + 1)

\* register_allocator.rs 127-144
use_var(v, al) ==
    LET uses == [al.uses EXCEPT ![v + 1] = @ - 1]
    IN [al EXCEPT !.uses = uses,
                  !.live_vars = IF uses[v + 1] = 0
                                THEN remove_var(al.graph, @, v, 1)
                                ELSE @]

RECURSIVE use_vars(_, _)
use_vars(vs, al) ==
    IF vs = <<>> THEN al ELSE use_vars(Tail(vs), use_var(Head(vs), al))

RECURSIVE init_vars(_, _)
init_vars(vs, al) ==
    IF vs = <<>> THEN al ELSE init_vars(Tail(vs), init_var(Head(vs), al))

\* register_allocator.rs 82-105: one instruction
interference_of(inst, al) ==
    CASE inst.op = "AddInt" ->
           use_var(inst.b, use_var(inst.a, init_var(inst.dest, al)))
      [] inst.op = "ConstantInt" -> init_var(inst.dest, al)
      [] inst.op = "Phi" ->
           use_var(inst.cond,
                   use_var(inst.b, use_var(inst.a, init_var(inst.dest, al))))
      [] OTHER -> init_vars(inst.returns, use_vars(inst.args, al))

RECURSIVE interference_of_all(_, _)
interference_of_all(insts, al) ==
    IF insts = <<>> THEN al
    ELSE interference_of_all(Tail(insts), interference_of(Head(insts), al))

\* register_allocator.rs 80-119
calculate_intference(b, al) ==
    LET done == interference_of_all(b.insts, al)
    IN CASE b.exit.op = "Branch" ->
              [done EXCEPT !.queue = Append(@, b.exit.block)]
         [] b.exit.op = "ConditionalBranch" ->
              [use_var(b.exit.cond, done) EXCEPT
                  !.queue = @ \o <<b.exit.block1, b.exit.block2>>]
         [] OTHER -> done

RECURSIVE interference_in_queue(_, _)
interference_in_queue(f, al) ==
    IF al.queue = <<>> THEN al.graph
    ELSE LET block_id == al.queue[Len(al.queue)]
             popped == [al EXCEPT
                           !.queue = SubSeq(@, 1, Len(al.queue) - 1)]
         IN interference_in_queue(
                f, calculate_intference(f.blocks[block_id + 1], popped))

\* register_allocator.rs 68-78
build_interference_graph(f) ==
    interference_in_queue(f, [graph |-> <<>>, live_vars |-> <<>>,
                              uses |-> count_uses_in_function(f),
                              queue |-> <<0>>])

\* register_allocator.rs 14-18, for one function of the finished program;
\* unit keeps the use counts next to the graph
AllocateRegisters ==
    /\ pc = "exec"
    /\ unit = NoUnit
    /\ \E id \in 0..(Len(program) - 1) :
          unit' = [op |-> "allocate", function |-> id,
                   uses |-> count_uses_in_function(program[id + 1]),
                   graph |-> build_interference_graph(program[id + 1])]
    /\ pc' = "allocated"
    /\ UNCHANGED <<src, err, compilerVars, vmVars>>

\* example.txt: the programs the model is run on
\* 1 + 2
SrcAdd ==
    <<"1", " ", "+", " ", "2">>

\* { x = 5\n x + x }
SrcBind ==
    <<"{", " ", "x", " ", "=", " ", "5", "\n", " ", "x", " ", "+", " ", "x",
      " ", "}">>

\* { f = fn(x) { x + 1 }\n f(41) }
SrcCall ==
    <<"{", " ", "f", " ", "=", " ", "f", "n", "(", "x", ")", " ", "{", " ",
      "x", " ", "+", " ", "1", " ", "}", "\n", " ", "f", "(", "4", "1", ")",
      " ", "}">>

\* { p = (1, 2)\n p }
SrcPair ==
    <<"{", " ", "p", " ", "=", " ", "(", "1", ",", " ", "2", ")", "\n", " ",
      "p", " ", "}">>

\* if true { 7 } else { 9 }
SrcIfTrueElse ==
    <<"i", "f", " ", "t", "r", "u", "e", " ", "{", " ", "7", " ", "}", " ",
      "e", "l", "s", "e", " ", "{", " ", "9", " ", "}">>

\* if false { 7 } else { 9 }
SrcIfFalseElse ==
    <<"i", "f", " ", "f", "a", "l", "s", "e", " ", "{", " ", "7", " ", "}",
      " ", "e", "l", "s", "e", " ", "{", " ", "9", " ", "}">>

\* if (true) { 7 } else { 9 }
SrcIfParenTrueElse ==
    <<"i", "f", " ", "(", "t", "r", "u", "e", ")", " ", "{", " ", "7", " ",
      "}", " ", "e", "l", "s", "e", " ", "{", " ", "9", " ", "}">>

\* if (false) { 7 } else { 9 }
SrcIfParenFalseElse ==
    <<"i", "f", " ", "(", "f", "a", "l", "s", "e", ")", " ", "{", " ", "7",
      " ", "}", " ", "e", "l", "s", "e", " ", "{", " ", "9", " ", "}">>

\* (if (true) { 7 }) else { 9 }
SrcWrappedIfTrueElse ==
    <<"(", "i", "f", " ", "(", "t", "r", "u", "e", ")", " ", "{", " ", "7",
      " ", "}", ")", " ", "e", "l", "s", "e", " ", "{", " ", "9", " ", "}">>

\* (if (false) { 7 }) else { 9 }
SrcWrappedIfFalseElse ==
    <<"(", "i", "f", " ", "(", "f", "a", "l", "s", "e", ")", " ", "{", " ",
      "7", " ", "}", ")", " ", "e", "l", "s", "e", " ", "{", " ", "9", " ",
      "}">>

\* { g = fn(x) { x + x }\n (g(3)) + (g(4)) }
SrcReuse ==
    <<"{", " ", "g", " ", "=", " ", "f", "n", "(", "x", ")", " ", "{", " ",
      "x", " ", "+", " ", "x", " ", "}", "\n", " ", "(", "g", "(", "3", ")",
      ")", " ", "+", " ", "(", "g", "(", "4", ")", ")", " ", "}">>

\* { g = fn(x) { x + x }; g(3) + g(4) }
SrcReuseSemicolon ==
    <<"{", " ", "g", " ", "=", " ", "f", "n", "(", "x", ")", " ", "{", " ",
      "x", " ", "+", " ", "x", " ", "}", ";", " ", "g", "(", "3", ")", " ",
      "+", " ", "g", "(", "4", ")", " ", "}">>

\* { if (false) { x = 1 }\n x + 1 }
SrcIfAssign ==
    <<"{", " ", "i", "f", " ", "(", "f", "a", "l", "s", "e", ")", " ", "{",
      " ", "x", " ", "=", " ", "1", " ", "}", "\n", " ", "x", " ", "+", " ",
      "1", " ", "}">>

\* { f = fn(x) { 1 }\n m = if (true) { 2 }\n f(m)\n f(m) }
SrcMaybeArg ==
    <<"{", " ", "f", " ", "=", " ", "f", "n", "(", "x", ")", " ", "{", " ",
      "1", " ", "}", "\n", " ", "m", " ", "=", " ", "i", "f", " ", "(", "t",
      "r", "u", "e", ")", " ", "{", " ", "2", " ", "}", "\n", " ", "f", "(",
      "m", ")", "\n", " ", "f", "(", "m", ")", " ", "}">>

\* { g = fn(x) { x }\n h = fn(f) { f(1) }\n h(g)\n g(2) }
SrcFuncArg ==
    <<"{", " ", "g", " ", "=", " ", "f", "n", "(", "x", ")", " ", "{", " ",
      "x", " ", "}", "\n", " ", "h", " ", "=", " ", "f", "n", "(", "f", ")",
      " ", "{", " ", "f", "(", "1", ")", " ", "}", "\n", " ", "h", "(", "g",
      ")", "\n", " ", "g", "(", "2", ")", " ", "}">>

\* { g = fn(x) { x }\n h = g\n g(1)\n h(2) }
SrcAlias ==
    <<"{", " ", "g", " ", "=", " ", "f", "n", "(", "x", ")", " ", "{", " ",
      "x", " ", "}", "\n", " ", "h", " ", "=", " ", "g", "\n", " ", "g", "(",
      "1", ")", "\n", " ", "h", "(", "2", ")", " ", "}">>

\* { f = fn(a, b) { a + b }\n (f(1, 2)) + (f(3, 4)) }
SrcTupleArg ==
    <<"{", " ", "f", " ", "=", " ", "f", "n", "(", "a", ",", " ", "b", ")",
      " ", "{", " ", "a", " ", "+", " ", "b", " ", "}", "\n", " ", "(", "f",
      "(", "1", ",", " ", "2", ")", ")", " ", "+", " ", "(", "f", "(", "3",
      ",", " ", "4", ")", ")", " ", "}">>

\* { f = fn(x) { (x, x + 1) }\n f(1) }
SrcTupleReturn ==
    <<"{", " ", "f", " ", "=", " ", "f", "n", "(", "x", ")", " ", "{", " ",
      "(", "x", ",", " ", "x", " ", "+", " ", "1", ")", " ", "}", "\n", " ",
      "f", "(", "1", ")", " ", "}">>

\* { f = fn(x) { x }\n f(1, true)\n f(2, false)\n f(3) }
SrcShapes ==
    <<"{", " ", "f", " ", "=", " ", "f", "n", "(", "x", ")", " ", "{", " ",
      "x", " ", "}", "\n", " ", "f", "(", "1", ",", " ", "t", "r", "u", "e",
      ")", "\n", " ", "f", "(", "2", ",", " ", "f", "a", "l", "s", "e", ")",
      "\n", " ", "f", "(", "3", ")", " ", "}">>

\* { fn f(x) { f(x) }\n f(1) }
SrcRecursive ==
    <<"{", " ", "f", "n", " ", "f", "(", "x", ")", " ", "{", " ", "f", "(",
      "x", ")", " ", "}", "\n", " ", "f", "(", "1", ")", " ", "}">>

\* (if (true) { (if (false) { 1 }) else { 2 } }) else { 3 }
SrcNestedIf ==
    <<"(", "i", "f", " ", "(", "t", "r", "u", "e", ")", " ", "{", " ", "(",
      "i", "f", " ", "(", "f", "a", "l", "s", "e", ")", " ", "{", " ", "1",
      " ", "}", ")", " ", "e", "l", "s", "e", " ", "{", " ", "2", " ", "}",
      " ", "}", ")", " ", "e", "l", "s", "e", " ", "{", " ", "3", " ", "}">>

\* if (true) { if (true) { 1 } }
SrcIfInIf ==
    <<"i", "f", " ", "(", "t", "r", "u", "e", ")", " ", "{", " ", "i", "f",
      " ", "(", "t", "r", "u", "e", ")", " ", "{", " ", "1", " ", "}", " ",
      "}">>

\* 1 + true
SrcPlusBool ==
    <<"1", " ", "+", " ", "t", "r", "u", "e">>

\* x
SrcUndefined ==
    <<"x">>

\* 1(2)
SrcCallInt ==
    <<"1", "(", "2", ")">>

\* 1 else { 2 }
SrcElseInt ==
    <<"1", " ", "e", "l", "s", "e", " ", "{", " ", "2", " ", "}">>

\* if (1) { 2 }
SrcIfInt ==
    <<"i", "f", " ", "(", "1", ")", " ", "{", " ", "2", " ", "}">>

\* (if (true) { 1 }) else { true }
SrcMergeMismatch ==
    <<"(", "i", "f", " ", "(", "t", "r", "u", "e", ")", " ", "{", " ", "1",
      " ", "}", ")", " ", "e", "l", "s", "e", " ", "{", " ", "t", "r", "u",
      "e", " ", "}">>

\* 1 = 2
SrcBadPattern ==
    <<"1", " ", "=", " ", "2">>

\* { f = fn(a, b) { a }\n f(1) }
SrcArity ==
    <<"{", " ", "f", " ", "=", " ", "f", "n", "(", "a", ",", " ", "b", ")",
      " ", "{", " ", "a", " ", "}", "\n", " ", "f", "(", "1", ")", " ", "}">>

\* 2147483647 + 1
SrcOverflow ==
    <<"2", "1", "4", "7", "4", "8", "3", "6", "4", "7", " ", "+", " ", "1">>

\* 2147483648
SrcBigLiteral ==
    <<"2", "1", "4", "7", "4", "8", "3", "6", "4", "8">>

\* true
SrcBool ==
    <<"t", "r", "u", "e">>

\* { h = fn(f) { f(f) }\n h(h) }
SrcOmega ==
    <<"{", " ", "h", " ", "=", " ", "f", "n", "(", "f", ")", " ", "{", " ",
      "f", "(", "f", ")", " ", "}", "\n", " ", "h", "(", "h", ")", " ", "}">>

\* { f = fn(x) { x + 1 }\n (if (true) { f(1) }) else { f(2) } }
SrcCallInIf ==
    <<"{", " ", "f", " ", "=", " ", "f", "n", "(", "x", ")", " ", "{", " ",
      "x", " ", "+", " ", "1", " ", "}", "\n", " ", "(", "i", "f", " ", "(",
      "t", "r", "u", "e", ")", " ", "{", " ", "f", "(", "1", ")", " ", "}",
      ")", " ", "e", "l", "s", "e", " ", "{", " ", "f", "(", "2", ")", " ",
      "}", " ", "}">>

\* { f = fn(x) { z = x\n z + z }\n f(1) }
SrcBodyBinds ==
    <<"{", " ", "f", " ", "=", " ", "f", "n", "(", "x", ")", " ", "{", " ",
      "z", " ", "=", " ", "x", "\n", " ", "z", " ", "+", " ", "z", " ", "}",
      "\n", " ", "f", "(", "1", ")", " ", "}">>

\* { y = 1\n f = fn(x) { y }\n f(2) }
SrcCapture ==
    <<"{", " ", "y", " ", "=", " ", "1", "\n", " ", "f", " ", "=", " ", "f",
      "n", "(", "x", ")", " ", "{", " ", "y", " ", "}", "\n", " ", "f", "(",
      "2", ")", " ", "}">>

\* { z = 5\n f = fn(x) { z = x\n z }\n f(1)\n z }
SrcBodyShadow ==
    <<"{", " ", "z", " ", "=", " ", "5", "\n", " ", "f", " ", "=", " ", "f",
      "n", "(", "x", ")", " ", "{", " ", "z", " ", "=", " ", "x", "\n", " ",
      "z", " ", "}", "\n", " ", "f", "(", "1", ")", "\n", " ", "z", " ", "}">>

\* { f = fn(a, b) { b }\n x = 1\n y = 2\n f(y, x) }
SrcSwapArgs ==
    <<"{", " ", "f", " ", "=", " ", "f", "n", "(", "a", ",", " ", "b", ")",
      " ", "{", " ", "b", " ", "}", "\n", " ", "x", " ", "=", " ", "1", "\n",
      " ", "y", " ", "=", " ", "2", "\n", " ", "f", "(", "y", ",", " ", "x",
      ")", " ", "}">>

\* 1 + 2 + 3
SrcPlusChain ==
    <<"1", " ", "+", " ", "2", " ", "+", " ", "3">>

\* 1 + 2, 3
SrcPlusTuple ==
    <<"1", " ", "+", " ", "2", ",", " ", "3">>

\* (1 + 2, 3)
SrcPlusInTuple ==
    <<"(", "1", " ", "+", " ", "2", ",", " ", "3", ")">>

Examples ==
    {SrcAdd, SrcBind, SrcCall, SrcPair, SrcIfTrueElse, SrcIfFalseElse,
     SrcIfParenTrueElse, SrcIfParenFalseElse, SrcWrappedIfTrueElse,
     SrcWrappedIfFalseElse, SrcReuse, SrcReuseSemicolon, SrcIfAssign,
     SrcMaybeArg, SrcFuncArg, SrcAlias, SrcTupleArg, SrcTupleReturn,
     SrcShapes, SrcRecursive, SrcNestedIf, SrcIfInIf, SrcPlusBool,
     SrcUndefined, SrcCallInt, SrcElseInt, SrcIfInt, SrcMergeMismatch,
     SrcBadPattern, SrcArity, SrcOverflow, SrcBigLiteral, SrcBool,
     SrcOmega, SrcCallInIf, SrcBodyBinds, SrcCapture, SrcBodyShadow,
     SrcSwapArgs, SrcPlusChain, SrcPlusTuple, SrcPlusInTuple}


\* Programs put together from parts: a function f of one parameter, a
\* second name g for it, and two calls, one through each name
\* { f = fn(x) { 
TextOpen ==
    <<"{", " ", "f", " ", "=", " ", "f", "n", "(", "x", ")", " ", "{", " ">>

\*  }\n g = f\n 
TextBodyEnd ==
    <<" ", "}", "\n", " ", "g", " ", "=", " ", "f", "\n", " ">>

\*  }
TextClose ==
    <<" ", "}">>

\* x
BodyParam ==
    <<"x">>

\* x + 1
BodyPlus ==
    <<"x", " ", "+", " ", "1">>

\* (x, 1)
BodyPair ==
    <<"(", "x", ",", " ", "1", ")">>

\* if (x) { 1 }
BodyIf ==
    <<"i", "f", " ", "(", "x", ")", " ", "{", " ", "1", " ", "}">>

\* (if (true) { x }) else { x }
BodyIfElse ==
    <<"(", "i", "f", " ", "(", "t", "r", "u", "e", ")", " ", "{", " ", "x",
      " ", "}", ")", " ", "e", "l", "s", "e", " ", "{", " ", "x", " ", "}">>

\* x(1)
BodyCall ==
    <<"x", "(", "1", ")">>

\* 1
ArgInt ==
    <<"1">>

\* true
ArgBool ==
    <<"t", "r", "u", "e">>

\* (1, 2)
ArgPair ==
    <<"(", "1", ",", " ", "2", ")">>

\* (if (true) { 1 })
ArgMaybe ==
    <<"(", "i", "f", " ", "(", "t", "r", "u", "e", ")", " ", "{", " ", "1",
      " ", "}", ")">>

\* fn(y) { y }
ArgFunc ==
    <<"f", "n", "(", "y", ")", " ", "{", " ", "y", " ", "}">>

\* f(
TextCallF ==
    <<"f", "(">>

\* g(
TextCallG ==
    <<"g", "(">>

\* )\n g(
TextThenCallG ==
    <<")", "\n", " ", "g", "(">>

\* )
TextCallEnd ==
    <<")">>

\* (f(
TextSumCallF ==
    <<"(", "f", "(">>

\* )) + (g(
TextPlusCallG ==
    <<")", ")", " ", "+", " ", "(", "g", "(">>

\* ))
TextSumEnd ==
    <<")", ")">>

\* ), g(
TextPairCallG ==
    <<")", ",", " ", "g", "(">>

\* (if (true) { f(
TextIfCallF ==
    <<"(", "i", "f", " ", "(", "t", "r", "u", "e", ")", " ", "{", " ", "f",
      "(">>

\* ) }) else { g(
TextElseCallG ==
    <<")", " ", "}", ")", " ", "e", "l", "s", "e", " ", "{", " ", "g", "(">>

\* ) }
TextElseEnd ==
    <<")", " ", "}">>

Bodies == {BodyParam, BodyPlus, BodyPair, BodyIf, BodyIfElse, BodyCall}

Arguments == {ArgInt, ArgBool, ArgPair, ArgMaybe, ArgFunc}

\* what stands before, between and after the two arguments
Tails ==
    {<<TextCallF, TextThenCallG, TextCallEnd>>,
     <<TextSumCallF, TextPlusCallG, TextSumEnd>>,
     <<TextSumCallF, TextPairCallG, TextSumEnd>>,
     <<TextIfCallF, TextElseCallG, TextElseEnd>>}

TwoCalls(body, tail, a1, a2) ==
    TextOpen \o body \o TextBodyEnd \o tail[1] \o a1 \o tail[2] \o a2
        \o tail[3] \o TextClose

Generated ==
    {TwoCalls(body, tail, a1, a2) :
        body \in Bodies, tail \in Tails, a1 \in Arguments, a2 \in Arguments}

Sources == Examples \cup Generated


(***************************************************************************)
(* Specification                                                           *)
(***************************************************************************)
Init ==
    /\ pc = "parse"
    /\ src \in Sources
    /\ err = ""
    /\ program = <<>>
    /\ function = FunctionNew
    /\ block = [id |-> 0, insts |-> <<>>, exit |-> Return]
    /\ scope = ScopeNew
    /\ impls = <<>>
    /\ stack = <<>>
    /\ ctl = Idle
    /\ created = 0
    /\ owner = <<>>
    /\ unit = NoUnit
    /\ regs = <<>>
    /\ frames = <<>>
    /\ result = <<>>

Next ==
    \/ ParseSource
    \/ CompileIntLiteral
    \/ CompileBoolLiteral
    \/ CompileIdent
    \/ CompileFunc
    \/ CompileTuple
    \/ TupleElement
    \/ CompileBlock
    \/ BlockStatement
    \/ CompilePlus
    \/ PlusLeft
    \/ PlusRight
    \/ CompileSingleEquals
    \/ SingleEqualsRight
    \/ CompileBracket
    \/ BracketLeft
    \/ CallImplementation
    \/ Monomorphise
    \/ BracketBody
    \/ CompileElse
    \/ ElseLeft
    \/ ElseRight
    \/ CompileIf
    \/ IfCond
    \/ IfConc
    \/ FinishMain
    \/ ExecAddInt
    \/ ExecConstantInt
    \/ ExecPhi
    \/ ExecCall
    \/ ExecBranch
    \/ ExecConditionalBranch
    \/ ExecReturnToCaller
    \/ ExecReturnMain

Spec == Init /\ [][Next]_vars

\* the compiler followed by the register allocator instead of the
\* interpreter
NextAlloc ==
    \/ ParseSource
    \/ CompileIntLiteral
    \/ CompileBoolLiteral
    \/ CompileIdent
    \/ CompileFunc
    \/ CompileTuple
    \/ TupleElement
    \/ CompileBlock
    \/ BlockStatement
    \/ CompilePlus
    \/ PlusLeft
    \/ PlusRight
    \/ CompileSingleEquals
    \/ SingleEqualsRight
    \/ CompileBracket
    \/ BracketLeft
    \/ CallImplementation
    \/ Monomorphise
    \/ BracketBody
    \/ CompileElse
    \/ ElseLeft
    \/ ElseRight
    \/ CompileIf
    \/ IfCond
    \/ IfConc
    \/ FinishMain
    \/ AllocateRegisters

SpecAlloc == Init /\ [][NextAlloc]_vars


(***************************************************************************)
(* Reference semantics: what a program of the fragment of integer          *)
(* literals, +, bindings, tuples and function calls denotes, evaluated     *)
(* directly on the syntax tree.  A result is [ok, v, env]; ok is FALSE     *)
(* where the program is outside the fragment, ill-typed, not closed, or    *)
(* its value is not defined (a sum outside the 32-bit range, more than     *)
(* MaxCallDepth nested calls).                                             *)
(***************************************************************************)
MaxCallDepth == 4

IntValue(n) == [k |-> "int", n |-> n]

TupleValue(vs) == [k |-> "tuple", vs |-> vs]

FuncValue(pattern, expr) == [k |-> "func", pattern |-> pattern, expr |-> expr]

Undefined == [ok |-> FALSE, v |-> IntValue(0), env |-> <<>>]

Defined(v, env) == [ok |-> TRUE, v |-> v, env |-> env]

EnvHas(env, name) == \E i \in 1..Len(env) : env[i].name = name

EnvGet(env, name) ==
    env[CHOOSE i \in 1..Len(env) :
            /\ env[i].name = name
            /\ \A j \in (i + 1)..Len(env) : env[j].name # name].v

RECURSIVE Decimal(_)
Decimal(lex) ==
    IF lex = <<>> THEN 0
    ELSE 10 * Decimal(SubSeq(lex, 1, Len(lex) - 1)) + DigitValue(lex[Len(lex)])

RECURSIVE Bind(_, _, _)
Bind(pattern, v, env) ==
    IF pattern.k = "Ident"
    THEN Defined(v, Append(env, [name |-> pattern.lex, v |-> v]))
    ELSE IF pattern.k = "Tuple" /\ v.k = "tuple"
            /\ Len(pattern.exprs) = Len(v.vs)
    THEN IF pattern.exprs = <<>> THEN Defined(v, env)
         ELSE LET first == Bind(pattern.exprs[1], v.vs[1], env)
              IN IF ~first.ok THEN Undefined
                 ELSE Bind(TupleExpr(Tail(pattern.exprs)),
                           TupleValue(Tail(v.vs)), first.env)
    ELSE Undefined

RECURSIVE Denote(_, _, _)
RECURSIVE DenoteAll(_, _, _)
Denote(expr, env, fuel) ==
    CASE expr.k = "IntLiteral" ->
           IF Len(expr.lex) > 9 THEN Undefined
           ELSE Defined(IntValue(Decimal(expr.lex)), env)
      [] expr.k = "Ident" ->
           IF EnvHas(env, expr.lex) THEN Defined(EnvGet(env, expr.lex), env)
           ELSE Undefined
      [] expr.k = "Tuple" ->
           LET all == DenoteAll(expr.exprs, env, fuel)
           IN IF all.ok THEN Defined(TupleValue(all.v), all.env)
              ELSE Undefined
      [] expr.k = "Block" ->
           LET all == DenoteAll(expr.exprs, env, fuel)
           IN IF all.ok THEN Denote(expr.last, all.env, fuel) ELSE Undefined
      [] expr.k = "Func" ->
           LET f == FuncValue(expr.pattern, expr.expr)
           IN IF expr.name.some
              THEN Defined(f, Append(env, [name |-> expr.name.lex, v |-> f]))
              ELSE Defined(f, env)
      [] expr.k = "Binary" /\ expr.op = "Plus" ->
           LET l == Denote(expr.left, env, fuel)
           IN IF ~l.ok THEN Undefined
              ELSE LET r == Denote(expr.right, l.env, fuel)
                   IN IF r.ok /\ l.v.k = "int" /\ r.v.k = "int"
                         /\ r.v.n <= I32Max - l.v.n
                      THEN Defined(IntValue(l.v.n + r.v.n), r.env)
                      ELSE Undefined
      [] expr.k = "Binary" /\ expr.op = "SingleEquals" ->
           LET r == Denote(expr.right, env, fuel)
           IN IF ~r.ok THEN Undefined
              ELSE LET b == Bind(expr.left, r.v, r.env)
                   IN IF b.ok THEN Defined(r.v, b.env) ELSE Undefined
      [] expr.k = "Binary" /\ expr.op = "Bracket" ->
           LET f == Denote(expr.left, env, fuel)
           IN IF ~f.ok \/ fuel = 0 THEN Undefined
              ELSE IF f.v.k # "func" THEN Undefined
              ELSE LET a == Denote(expr.right, f.env, fuel)
                   IN IF ~a.ok THEN Undefined
                      ELSE LET b == Bind(f.v.pattern, a.v, <<>>)
                           IN IF ~b.ok THEN Undefined
                              ELSE LET r == Denote(f.v.expr, b.env, fuel - 1)
                                   IN IF r.ok THEN Defined(r.v, a.env)
                                      ELSE Undefined
      [] OTHER -> Undefined

DenoteAll(exprs, env, fuel) ==
    IF exprs = <<>> THEN [ok |-> TRUE, v |-> <<>>, env |-> env]
    ELSE LET first == Denote(Head(exprs), env, fuel)
         IN IF ~first.ok THEN [ok |-> FALSE, v |-> <<>>, env |-> <<>>]
            ELSE LET rest == DenoteAll(Tail(exprs), first.env, fuel)
                 IN [ok |-> rest.ok, v |-> <<first.v>> \o rest.v,
                     env |-> rest.env]

\* the integers of a value, left to right, as main's return variables hold
\* them
RECURSIVE Flatten(_)
RECURSIVE FlattenAll(_)
Flatten(v) ==
    CASE v.k = "int" -> <<v.n>>
      [] v.k = "tuple" -> FlattenAll(v.vs)
      [] OTHER -> <<>>

FlattenAll(vs) ==
    IF vs = <<>> THEN <<>> ELSE Flatten(Head(vs)) \o FlattenAll(Tail(vs))

Meaning == Denote(parse_source(src).node, <<>>, MaxCallDepth)

Finished == pc \in {"done", "parse_error", "compile_error", "panic"}

(***************************************************************************)
(* C1.  Compiling a well-typed closed program of integer literals, +,      *)
(* bindings, tuples and function calls and running main yields the values  *)
(* the reference semantics gives the program; the program that binds       *)
(* g = fn(x) { x + x } and adds g(3) and g(4) yields 14.                   *)
(***************************************************************************)
C1_CompiledMainYieldsMeaning ==
    pc = "done" =>
        /\ Meaning.ok => result = Flatten(Meaning.v)
        /\ src = SrcReuse => result = <<14>>

(***************************************************************************)
(* C2.  Written as in the language's syntax, an if with an else arm yields *)
(* the value of the arm the condition selects: if true { 7 } else { 9 }    *)
(* runs to 7 and if false { 7 } else { 9 } runs to 9.                      *)
(***************************************************************************)
C2_IfElseYieldsSelectedArm ==
    Finished =>
        /\ src = SrcIfTrueElse => pc = "done" /\ result = <<7>>
        /\ src = SrcIfFalseElse => pc = "done" /\ result = <<9>>

(***************************************************************************)
(* Control flow of a finished function and dominance of uses               *)
(***************************************************************************)
Range(s) == {s[i] : i \in 1..Len(s)}

Successors(f, id) ==
    LET exit == f.blocks[id + 1].exit
    IN CASE exit.op = "Branch" -> {exit.block}
         [] exit.op = "ConditionalBranch" ->
              {exit.block1, exit.block2} \cap (0..(Len(f.blocks) - 1))
         [] OTHER -> {}

\* the blocks on some path from the entry block that does not enter avoid
RECURSIVE ReachFrom(_, _, _)
ReachFrom(f, avoid, seen) ==
    LET more == (UNION {Successors(f, id) : id \in seen}) \ (seen \cup {avoid})
    IN IF more = {} THEN seen ELSE ReachFrom(f, avoid, seen \cup more)

ReachAvoiding(f, avoid) ==
    IF avoid = 0 \/ f.blocks = <<>> THEN {} ELSE ReachFrom(f, avoid, {0})

Reachable(f) == ReachAvoiding(f, NoBlock)

InstDests(inst) == IF inst.op = "Call" THEN inst.returns ELSE <<inst.dest>>

InstUses(inst) ==
    CASE inst.op = "AddInt" -> {inst.a, inst.b}
      [] inst.op = "Phi" -> {inst.cond, inst.a, inst.b}
      [] inst.op = "Call" -> Range(inst.args)
      [] OTHER -> {}

ExitUses(f, b) ==
    CASE b.exit.op = "ConditionalBranch" -> {b.exit.cond}
      [] b.exit.op = "Return" -> Range(f.returns)
      [] OTHER -> {}

DefinedIn(b, upto) ==
    UNION {Range(InstDests(b.insts[j])) : j \in 1..upto}

\* v is written on every path from the entry to position i of block id
DefinitionDominates(f, id, i, v) ==
    \/ v \in Range(f.params)
    \/ v \in DefinedIn(f.blocks[id + 1], i - 1)
    \/ \E d \in 0..(Len(f.blocks) - 1) :
          /\ d # id
          /\ v \in DefinedIn(f.blocks[d + 1], Len(f.blocks[d + 1].insts))
          /\ id \notin ReachAvoiding(f, d)

UsesDominated(f) ==
    \A id \in Reachable(f) :
        LET b == f.blocks[id + 1]
        IN /\ \A i \in 1..Len(b.insts) :
                 \A v \in InstUses(b.insts[i]) : DefinitionDominates(f, id, i, v)
           /\ \A v \in ExitUses(f, b) :
                 DefinitionDominates(f, id, Len(b.insts) + 1, v)

(***************************************************************************)
(* C3.  In every function of every compiled program each use of a variable *)
(* (operand of AddInt or Phi, Call argument, branch condition, return      *)
(* variable) is dominated by a definition of it, the operands of the Phi   *)
(* at an if/else join and names assigned in the body of an if included.    *)
(***************************************************************************)
C3_UsesAreDominated ==
    \A n \in 1..Len(program) : UsesDominated(program[n])

(***************************************************************************)
(* Shape of a type: its constructors at every position, variables and      *)
(* function identities left out                                            *)
(***************************************************************************)
RECURSIVE ShapeEq(_, _)
ShapeEq(t, u) ==
    /\ t.k = u.k
    /\ t.k = "Maybe" => ShapeEq(t.ty, u.ty)
    /\ t.k = "Tuple" =>
          /\ Len(t.types) = Len(u.types)
          /\ \A i \in 1..Len(t.types) : ShapeEq(t.types[i], u.types[i])

(***************************************************************************)
(* C4.  Any two implementations recorded in the impls list of one Func     *)
(* value have param_ty of different shapes: one shape is monomorphised     *)
(* once, Maybe-shaped and Func-shaped arguments included.                  *)
(***************************************************************************)
C4_ImplementationShapesDistinct ==
    \A c \in 1..Len(impls) :
        \A i, j \in 1..Len(impls[c]) :
            i < j => ~ShapeEq(impls[c][i].param_ty, impls[c][j].param_ty)

(***************************************************************************)
(* Types on their own: the operations of types.rs applied to operands      *)
(* drawn from all types of at most MaxTypeNodes constructors.  The left    *)
(* operand carries the variables 0, 1, ... in pre-order, the right one     *)
(* variables that the left does not use.                                   *)
(***************************************************************************)
MaxTypeNodes == 3

SomeFunc(cell) == TyFunc(Ident(<<"x">>), Ident(<<"x">>), cell)

RECURSIVE TypesOfSize(_, _, _)
RECURSIVE TypeListsOfSize(_, _, _)
\* the types of exactly n constructors whose variables are numbered from
\* base on, as [ty, next]
TypesOfSize(n, base, cell) ==
    IF n = 1
    THEN {[ty |-> TyInt(base), next |-> base + 1],
          [ty |-> TyBool(base), next |-> base + 1],
          [ty |-> SomeFunc(cell), next |-> base],
          [ty |-> TyTuple(<<>>), next |-> base]}
    ELSE {[ty |-> TyMaybe(base, t.ty), next |-> t.next] :
             t \in TypesOfSize(n - 1, base + 1, cell)}
         \cup {[ty |-> TyTuple(l.types), next |-> l.next] :
                  l \in TypeListsOfSize(n - 1, base, cell)}

\* the lists of types of n constructors in all
TypeListsOfSize(n, base, cell) ==
    IF n = 0 THEN {[types |-> <<>>, next |-> base]}
    ELSE UNION {UNION {{[types |-> <<h.ty>> \o l.types, next |-> l.next] :
                           l \in TypeListsOfSize(n - k, h.next, cell)} :
                       h \in TypesOfSize(k, base, cell)} :
                k \in 1..n}

TypesUpTo(n, base, cell) ==
    UNION {{t.ty : t \in TypesOfSize(m, base, cell)} : m \in 1..n}

LeftTypes == TypesUpTo(MaxTypeNodes, 0, 1)

RightTypes == TypesUpTo(MaxTypeNodes, MaxTypeNodes, 2)

\* ==  on two types (impl PartialEq for Type)
TypeEq ==
    /\ pc = "types"
    /\ unit.op = "eq"
    /\ ~unit.done
    /\ unit' = [unit EXCEPT !.done = TRUE, !.out = type_eq(unit.t, unit.u)]
    /\ UNCHANGED <<pc, src, err, compilerVars, vmVars>>

\* variable lists: ascending, descending, and one variable repeated
VarLists ==
    {[i \in 1..(MaxTypeNodes + 1) |-> 10 + i],
     [i \in 1..(MaxTypeNodes + 1) |-> 30 - i],
     [i \in 1..MaxTypeNodes |-> 7]}

\* Type::map_to on a type and a slice of variables, followed by
\* Type::get_used_vars on the result
TypeMapTo ==
    /\ pc = "types"
    /\ unit.op = "map_to"
    /\ ~unit.done
    /\ LET mapped == map_to(unit.t, unit.vs)
       IN unit' = [unit EXCEPT !.done = TRUE, !.out = mapped,
                               !.used = get_used_vars(mapped)]
    /\ UNCHANGED <<pc, src, err, compilerVars, vmVars>>

InitTypes ==
    /\ pc = "types"
    /\ unit \in {[op |-> "eq", t |-> t, u |-> u, done |-> FALSE,
                  out |-> FALSE] : t \in LeftTypes, u \in LeftTypes \cup RightTypes}
               \cup {[op |-> "map_to", t |-> t, vs |-> vs, done |-> FALSE,
                       out |-> t, used |-> <<>>] :
                         t \in LeftTypes, vs \in VarLists}
    /\ src = <<>>
    /\ err = ""
    /\ program = <<>>
    /\ function = FunctionNew
    /\ block = [id |-> 0, insts |-> <<>>, exit |-> Return]
    /\ scope = ScopeNew
    /\ impls = <<>>
    /\ stack = <<>>
    /\ ctl = Idle
    /\ created = 0
    /\ owner = <<>>
    /\ regs = <<>>
    /\ frames = <<>>
    /\ result = <<>>

NextTypes == TypeEq \/ TypeMapTo

SpecTypes == InitTypes /\ [][NextTypes]_vars

(***************************************************************************)
(* C5.  equals(t, u) holds exactly if t and u have the same shape,         *)
(* whatever variables they carry; so it is reflexive and symmetric for     *)
(* every type, Maybe and Func types included.                              *)
(***************************************************************************)
C5_EqualsIsShapeEquality ==
    (unit.op = "eq" /\ unit.done) =>
        /\ unit.out = ShapeEq(unit.t, unit.u)
        /\ type_eq(unit.t, unit.t)
        /\ type_eq(unit.t, unit.u) = type_eq(unit.u, unit.t)

(***************************************************************************)
(* C6.  A Call changes, among the variables of the calling function, only  *)
(* the Call's returns: when the callee returns, every other variable of    *)
(* the caller holds the value it held when the Call was executed.          *)
(***************************************************************************)
C6_CallChangesOnlyReturns ==
    [][(AtExit("Return") /\ Len(frames) > 1) =>
          LET caller == frames[Len(frames) - 1]
              f == program[caller.fn + 1]
              call_inst == f.blocks[caller.blk + 1].insts[caller.ip]
          IN \A v \in 0..(f.variable_count - 1) :
                 v \notin Range(call_inst.returns) =>
                     get_register(regs', v) = get_register(Running.before, v)]_vars

(***************************************************************************)
(* Writers of variables                                                    *)
(***************************************************************************)
RECURSIVE BlockDests(_)
BlockDests(insts) ==
    IF insts = <<>> THEN <<>>
    ELSE InstDests(Head(insts)) \o BlockDests(Tail(insts))

RECURSIVE BlocksDests(_)
BlocksDests(blocks) ==
    IF blocks = <<>> THEN <<>>
    ELSE BlockDests(Head(blocks).insts) \o BlocksDests(Tail(blocks))

\* every place that writes a variable of f: its parameters, then the dests
\* of its instructions
Writers(f) == f.params \o BlocksDests(f.blocks)

SingleWriter(f) ==
    /\ \A i, j \in 1..Len(Writers(f)) : i < j => Writers(f)[i] # Writers(f)[j]
    /\ \A i \in 1..Len(Writers(f)) :
           Writers(f)[i] \in 0..(f.variable_count - 1)

\* a step of compile inside one function
SameFunction ==
    /\ pc = "compile" /\ pc' = "compile"
    /\ created' = created
    /\ Len(program') = Len(program)

\* a step that finishes the function under construction and adds it
FunctionAdded == pc = "compile" /\ Len(program') = Len(program) + 1

CounterOnlyIncreases ==
    /\ SameFunction => function'.variable_count >= function.variable_count
    /\ FunctionAdded =>
          program'[Len(program')].variable_count >= function.variable_count
    /\ (FunctionAdded /\ pc' = "compile") =>
          function'.variable_count >= Top.function.variable_count

(***************************************************************************)
(* C7.  In every function of every compiled program each variable has at   *)
(* most one writer, a parameter or the dest of one instruction (a Call's   *)
(* returns counting as dests), and it was handed out by the function's     *)
(* variable counter, which only increases.                                 *)
(***************************************************************************)
C7_SingleWriter ==
    /\ [](\A n \in 1..Len(program) : SingleWriter(program[n]))
    /\ [][CounterOnlyIncreases]_vars

\* C7: a finished function with a parameter and an AddInt, and a function
\* that receives the results of a Call
C7_Witness ==
    /\ \E n \in 1..Len(program) :
          /\ program[n].params # <<>>
          /\ \E b \in Range(program[n].blocks) :
                \E inst \in Range(b.insts) : inst.op = "AddInt"
    /\ \E n \in 1..Len(program) :
          \E b \in Range(program[n].blocks) :
              \E inst \in Range(b.insts) :
                  inst.op = "Call" /\ inst.returns # <<>>

(***************************************************************************)
(* C8.  Every Call has as many args as its target function has parameters  *)
(* and as many returns as the target has return variables, in the block    *)
(* being emitted into and in every finished function, whether the call     *)
(* follows a monomorphisation or reuses an implementation.                 *)
(***************************************************************************)
CallMatchesTarget(inst) ==
    inst.op = "Call" =>
        /\ inst.function \in 0..(Len(program) - 1)
        /\ Len(inst.args) = Len(program[inst.function + 1].params)
        /\ Len(inst.returns) = Len(program[inst.function + 1].returns)

C8_CallArity ==
    /\ \A n \in 1..Len(program) :
           \A b \in Range(program[n].blocks) :
               \A inst \in Range(b.insts) : CallMatchesTarget(inst)
    /\ pc = "compile" => \A inst \in Range(block.insts) : CallMatchesTarget(inst)

\* C8: a finished function calls one implementation twice, each time with
\* two arguments
C8_Witness ==
    \E n \in 1..Len(program) :
        \E b \in Range(program[n].blocks) :
            \E i, j \in 1..Len(b.insts) :
                /\ i < j
                /\ b.insts[i].op = "Call" /\ b.insts[j].op = "Call"
                /\ b.insts[i].function = b.insts[j].function
                /\ Len(b.insts[i].args) = 2

(***************************************************************************)
(* Commits of block slots                                                  *)
(***************************************************************************)
IsOpen(f, b) == f.commits[b.id + 1] = 0

\* the blocks compile still holds (the cursor and the blocks saved by the
\* arms waiting below it) are open in their function: frame n of the stack
\* and those below it, f being the function frame n works on
RECURSIVE HeldBlocksOpen(_, _)
HeldBlocksOpen(n, f) ==
    IF n = 0 THEN TRUE
    ELSE LET frame == stack[n]
         IN CASE frame.k = "IfConc" ->
                   /\ IsOpen(f, frame.block)
                   /\ IsOpen(f, frame.exit_block)
                   /\ HeldBlocksOpen(n - 1, f)
              [] frame.k = "ElseRight" ->
                   /\ IsOpen(f, frame.exit_block)
                   /\ HeldBlocksOpen(n - 1, f)
              [] frame.k = "BracketBody" ->
                   /\ IsOpen(frame.function, frame.block)
                   /\ \A i \in 1..Len(frame.function.commits) :
                          frame.function.commits[i] <= 1
                   /\ HeldBlocksOpen(n - 1, frame.function)
              [] OTHER -> HeldBlocksOpen(n - 1, f)

CommittedOnce ==
    /\ \A n \in 1..Len(program) :
           \A i \in 1..Len(program[n].blocks) : program[n].commits[i] = 1
    /\ pc = "compile" =>
           /\ \A i \in 1..Len(function.commits) : function.commits[i] <= 1
           /\ IsOpen(function, block)
           /\ HeldBlocksOpen(Len(stack), function)

\* the committed slots of f are the same in g
SlotsKept(f, g) ==
    \A i \in 1..Len(f.blocks) :
        f.commits[i] >= 1 =>
            /\ i <= Len(g.blocks)
            /\ g.blocks[i] = f.blocks[i]

CommittedSlotsStay ==
    /\ \A n \in 1..Len(program) :
           /\ n <= Len(program')
           /\ program'[n] = program[n]
    /\ SameFunction => SlotsKept(function, function')
    /\ FunctionAdded => SlotsKept(function, program'[Len(program')])
    /\ (FunctionAdded /\ pc' = "compile") =>
           SlotsKept(Top.function, function')

ImplementationsRecorded ==
    \A n \in 1..Len(program) :
        owner[n] # 0 =>
            /\ owner[n] \in 1..Len(impls)
            /\ \E i \in 1..Len(impls[owner[n]]) :
                  impls[owner[n]][i].function = n - 1

\* a call about to be resolved through a Func value scans the list that
\* holds every implementation compiled for the fn expression it came from
CallScansSharedList ==
    (pc = "compile" /\ Returning("BracketRight")) =>
        /\ Top.func.impls \in 1..Len(impls)
        /\ \A n \in 1..Len(program) :
               owner[n] = Top.func.impls =>
                   \E i \in 1..Len(impls[Top.func.impls]) :
                       impls[Top.func.impls][i].function = n - 1

ListsOnlyGrow ==
    /\ Len(impls') >= Len(impls)
    /\ \A c \in 1..Len(impls) :
           /\ Len(impls'[c]) >= Len(impls[c])
           /\ SubSeq(impls'[c], 1, Len(impls[c])) = impls[c]

(***************************************************************************)
(* C10.  The copies of a Func value that come from one evaluation of an fn *)
(* expression share one impls list: an implementation appended through one *)
(* copy is in the list a later call through any copy scans, and the list   *)
(* only grows.                                                             *)
(***************************************************************************)
C10_CopiesShareImpls ==
    /\ [](ImplementationsRecorded /\ CallScansSharedList)
    /\ [][ListsOnlyGrow]_vars

\* C10: two names are bound to copies of one Func value, and the block
\* holds two calls of the one implementation recorded for it
C10_Witness ==
    /\ pc = "compile"
    /\ \E i, j \in 1..Len(scope) :
          /\ scope[i].name # scope[j].name
          /\ scope[i].ty.k = "Func" /\ scope[j].ty.k = "Func"
          /\ scope[i].ty.impls = scope[j].ty.impls
          /\ Len(impls[scope[i].ty.impls]) = 1
          /\ \E a, b \in 1..Len(block.insts) :
                /\ a < b
                /\ block.insts[a].op = "Call" /\ block.insts[b].op = "Call"
                /\ block.insts[a].function
                       = impls[scope[i].ty.impls][1].function
                /\ block.insts[b].function = block.insts[a].function

(***************************************************************************)
(* C11.  Compiling left else alt with left of type Maybe(tag, inner) and   *)
(* alt of a type whose shape differs from inner, or that has a Maybe or    *)
(* Func component, returns the error TypeError; the compiler does not      *)
(* abort.                                                                  *)
(***************************************************************************)
RECURSIVE HasMaybeOrFunc(_)
HasMaybeOrFunc(t) ==
    \/ t.k \in {"Maybe", "Func"}
    \/ t.k = "Tuple" /\ \E i \in 1..Len(t.types) : HasMaybeOrFunc(t.types[i])

C11_MergeMismatchIsTypeError ==
    [][(Returning("ElseRight")
           /\ (~ShapeEq(Top.ty, ctl.x) \/ HasMaybeOrFunc(ctl.x)))
          => (pc' = "compile_error" /\ err' = "TypeError")]_vars

(***************************************************************************)
(* C12.  A monomorphised body is compiled in a fresh scope holding only    *)
(* the names its pattern binds: an identifier the body uses without        *)
(* binding it is the error UndefinedVariable, also when the scope of the   *)
(* call site defines it, and what the body binds never reaches the         *)
(* caller's scope.                                                         *)
(***************************************************************************)
Names(sc) == {sc[i].name : i \in 1..Len(sc)}

RECURSIVE PatternIdents(_)
PatternIdents(pattern) ==
    IF pattern.k = "Ident" THEN {pattern.lex}
    ELSE IF pattern.k = "Tuple"
    THEN UNION {PatternIdents(pattern.exprs[i]) : i \in 1..Len(pattern.exprs)}
    ELSE {}

\* the names an expression can bind: left sides of = and names of fn
RECURSIVE BoundIn(_)
BoundIn(e) ==
    IF e.k = "Binary"
    THEN (IF e.op = "SingleEquals" THEN PatternIdents(e.left)
          ELSE BoundIn(e.left)) \cup BoundIn(e.right)
    ELSE IF e.k = "Tuple"
    THEN UNION {BoundIn(e.exprs[i]) : i \in 1..Len(e.exprs)}
    ELSE IF e.k = "Block"
    THEN UNION {BoundIn(e.exprs[i]) : i \in 1..Len(e.exprs)}
         \cup BoundIn(e.last)
    ELSE IF e.k = "If" THEN BoundIn(e.cond) \cup BoundIn(e.conc)
    ELSE IF e.k = "Func" /\ e.name.some THEN {e.name.lex}
    ELSE {}

InBody == \E i \in 1..Len(stack) : stack[i].k = "BracketBody"

\* the frame of the body being compiled (the innermost one)
BodyFrame ==
    stack[CHOOSE i \in 1..Len(stack) :
              /\ stack[i].k = "BracketBody"
              /\ \A j \in (i + 1)..Len(stack) : stack[j].k # "BracketBody"]

BodyNames == PatternIdents(BodyFrame.func.pattern) \cup BoundIn(BodyFrame.func.expr)

BodyScopeIsLocal == (pc = "compile" /\ InBody) => Names(scope) \subseteq BodyNames

BodyStartsFromPattern ==
    (Returning("BracketRight") /\ pc' = "compile" /\ InBody'
        /\ Len(stack') = Len(stack) /\ stack'[Len(stack')].k = "BracketBody")
      => Names(scope') = PatternIdents(Top.func.pattern)

UnboundInBodyIsUndefined ==
    (Evaluating("Ident") /\ InBody /\ ctl.x.lex \notin BodyNames)
      => (pc' = "compile_error" /\ err' = "UndefinedVariable")

CallerScopeKept == Returning("BracketBody") => scope' = Top.scope

C12_BodyScopeIsFresh ==
    /\ []BodyScopeIsLocal
    /\ [][BodyStartsFromPattern /\ UnboundInBodyIsUndefined
            /\ CallerScopeKept]_vars

\* a body uses a name that only the scope of the call site defines, and
\* compilation has stopped with UndefinedVariable
C12_Witness ==
    /\ pc = "compile_error" /\ err = "UndefinedVariable"
    /\ InBody /\ ctl.mode = "eval" /\ ctl.x.k = "Ident"
    /\ ctl.x.lex \in Names(BodyFrame.scope)

(***************************************************************************)
(* Register allocation: what the IR of a function says about uses and      *)
(* liveness, stated on the control-flow graph.                             *)
(***************************************************************************)
Occurrences(s, v) == Cardinality({i \in 1..Len(s) : s[i] = v})

RECURSIVE UsesInInsts(_, _)
UsesInInsts(insts, v) ==
    IF insts = <<>> THEN 0
    ELSE Occurrences(operands(Head(insts)), v) + UsesInInsts(Tail(insts), v)

UsesInBlock(b, v) ==
    UsesInInsts(b.insts, v)
    + (IF b.exit.op = "ConditionalBranch" /\ b.exit.cond = v THEN 1 ELSE 0)

\* the uses of v in the reachable blocks among the first n
RECURSIVE UsesInReachable(_, _, _)
UsesInReachable(f, n, v) ==
    IF n = 0 THEN 0
    ELSE (IF (n - 1) \in Reachable(f) THEN UsesInBlock(f.blocks[n], v) ELSE 0)
         + UsesInReachable(f, n - 1, v)

StaticUses(f, v) ==
    UsesInReachable(f, Len(f.blocks), v) + Occurrences(f.returns, v)

Allocated == program[unit.function + 1]

\* the blocks reachable from the end of block id
After(f, id) ==
    IF Successors(f, id) = {} THEN {}
    ELSE ReachFrom(f, NoBlock, Successors(f, id))

\* u is read after instruction i of block id, or is a return variable
RemainingUse(f, id, i, u) ==
    LET b == f.blocks[id + 1]
    IN \/ u \in Range(f.returns)
       \/ \E j \in (i + 1)..Len(b.insts) : u \in InstUses(b.insts[j])
       \/ u \in ExitUses(f, b)
       \/ \E d \in After(f, id) :
             \/ \E j \in 1..Len(f.blocks[d + 1].insts) :
                   u \in InstUses(f.blocks[d + 1].insts[j])
             \/ u \in ExitUses(f, f.blocks[d + 1])

\* some node of one variable lists a node of the other
Edge(graph, u, v) ==
    \E n \in 1..Len(graph) : \E m \in Range(graph[n].interference) :
        {graph[n].var, graph[m].var} = {u, v}

\* instruction i of block id defines v while u, a parameter or a variable
\* defined on every path to it, is still needed
LiveAcross(f, id, i, u, v) ==
    /\ id \in Reachable(f)
    /\ v \in Range(InstDests(f.blocks[id + 1].insts[i]))
    /\ u # v
    /\ u \notin Range(InstDests(f.blocks[id + 1].insts[i]))
    /\ DefinitionDominates(f, id, i, u)
    /\ RemainingUse(f, id, i, u)

(***************************************************************************)
(* C13.  The interference graph is complete with respect to liveness:      *)
(* whenever an instruction defines v while u, a parameter or an already    *)
(* defined variable, has a remaining use or is a return variable, the      *)
(* graph records an edge between u and v.  This includes functions with    *)
(* parameters and the diamonds of if/else.                                 *)
(***************************************************************************)
C13_InterferenceIsComplete ==
    pc = "allocated" =>
        \A id \in 0..(Len(Allocated.blocks) - 1) :
            \A i \in 1..Len(Allocated.blocks[id + 1].insts) :
                \A u, v \in 0..(Allocated.variable_count - 1) :
                    LiveAcross(Allocated, id, i, u, v)
                        => Edge(unit.graph, u, v)

(***************************************************************************)
(* C16.  The use-count pass gives each variable exactly its number of      *)
(* static uses: the uses in each reachable block counted once, plus one    *)
(* for each occurrence among the return variables, also when a join block  *)
(* is reachable by several paths.                                          *)
(***************************************************************************)
C16_UseCountsAreStaticUses ==
    pc = "allocated" =>
        \A v \in 0..(Allocated.variable_count - 1) :
            unit.uses[v + 1] = StaticUses(Allocated, v)

(***************************************************************************)
(* C14.  + binds tightest and is left-associative: a + b + c parses to     *)
(* Binary(Plus, Binary(Plus, a, b), c), and a + b, c parses to the tuple   *)
(* (a + b, c).  Stated for the texts 1 + 2 + 3 and 1 + 2, 3.               *)
(***************************************************************************)
Lit(ch) == IntLiteral(<<ch>>)

C14_PlusIsTightestAndLeft ==
    [][/\ (pc = "parse" /\ src = SrcPlusChain)
            => ctl' = Eval(Binary(Binary(Lit("1"), Lit("2"), "Plus"),
                                  Lit("3"), "Plus"))
       /\ (pc = "parse" /\ src = SrcPlusTuple)
            => ctl' = Eval(TupleExpr(<<Binary(Lit("1"), Lit("2"), "Plus"),
                                       Lit("3")>>))]_vars

(***************************************************************************)
(* C15.  When a callee is entered, its i-th parameter holds the value the  *)
(* i-th argument variable had in the caller just before the Call, whatever *)
(* the ids of the variables are (arguments r1, r0 for parameters r0, r1    *)
(* included).                                                              *)
(***************************************************************************)
C15_ParametersReceiveArguments ==
    [][AtInstruction("Call") =>
          LET callee == program[Inst.function + 1]
          IN \A i \in 1..Len(callee.params) :
                 i <= Len(Inst.args) =>
                     get_register(regs', callee.params[i])
                         = get_register(regs, Inst.args[i])]_vars

(***************************************************************************)
(* Scope on its own: names are assigned one after another to a scope that  *)
(* starts as Scope::new(); unit records the last assignment.               *)
(***************************************************************************)
MaxNames == 3

Letters == <<"a", "b", "c", "d", "e", "f">>

ScopeNames == {<<Letters[i]>> : i \in 1..MaxNames}

ScopeTypes == {TyInt(0), TyBool(1), TyTuple(<<TyInt(0), TyBool(1)>>)}

\* scope.rs 23-28
ScopeAssign ==
    /\ pc = "scope"
    /\ Len(scope) <= MaxNames
    /\ \E name \in ScopeNames : \E ty \in ScopeTypes :
          /\ scope' = scope_assign(scope, name, ty)
          /\ unit' = [op |-> "assign", name |-> name, ty |-> ty]
    /\ UNCHANGED <<pc, src, err, program, function, block, impls, stack, ctl,
                   created, owner, vmVars>>

InitScope ==
    /\ pc = "scope"
    /\ unit = NoUnit
    /\ src = <<>>
    /\ err = ""
    /\ program = <<>>
    /\ function = FunctionNew
    /\ block = [id |-> 0, insts |-> <<>>, exit |-> Return]
    /\ scope = ScopeNew
    /\ impls = <<>>
    /\ stack = <<>>
    /\ ctl = Idle
    /\ created = 0
    /\ owner = <<>>
    /\ regs = <<>>
    /\ frames = <<>>
    /\ result = <<>>

NextScope == ScopeAssign

SpecScope == InitScope /\ [][NextScope]_vars

(***************************************************************************)
(* C18.  Scope.assign(name, t) overwrites the existing frame if the name   *)
(* is bound anywhere in the chain and pushes exactly one frame otherwise;  *)
(* afterwards get(name) is t, get of every other name is what it was, and  *)
(* no name occurs in two frames.                                           *)
(***************************************************************************)
NoNameTwice(sc) ==
    \A i, j \in 1..Len(sc) : sc[i].name = sc[j].name => i = j

AssignedAsClaimed ==
    unit'.op = "assign" =>
        /\ scope_get(scope', unit'.name) = [some |-> TRUE, ty |-> unit'.ty]
        /\ \A other \in ScopeNames \ {unit'.name} :
               scope_get(scope', other) = scope_get(scope, other)
        /\ IF \E i \in 1..Len(scope) : scope[i].name = unit'.name
           THEN /\ Len(scope') = Len(scope)
                /\ \A i \in 1..Len(scope) : scope'[i].name = scope[i].name
           ELSE /\ Len(scope') = Len(scope) + 1
                /\ SubSeq(scope', 1, Len(scope)) = scope

C18_AssignOverwritesOrPushes ==
    /\ [](pc = "scope" => NoNameTwice(scope))
    /\ [][AssignedAsClaimed]_vars

\* a name bound below two other frames has just been given a new type
C18_Witness ==
    /\ pc = "scope" /\ unit.op = "assign"
    /\ Len(scope) = 3
    /\ scope[1].name = unit.name
    /\ scope[1].ty = unit.ty
    /\ unit.ty = TyTuple(<<TyInt(0), TyBool(1)>>)

(***************************************************************************)
(* C17.  For left else alt the instructions of alt go into a newly opened  *)
(* block that is entered only through the false arm of a conditional       *)
(* branch on the tag from the cursor block; that block ends with a branch  *)
(* to the join block, the true arm goes straight to the join block, and    *)
(* the Phis of the merge are the first instructions of the join block.     *)
(***************************************************************************)
\* the step that starts compiling alt: the cursor moves to a fresh, empty
\* block, and the block left behind is committed with the branch on the tag
AltOpensBlock ==
    (Returning("ElseLeft") /\ ctl.x.k = "Maybe" /\ pc' = "compile") =>
        LET join == Top'.exit_block.id
        IN /\ block'.id \notin {block.id, join}
           /\ block'.insts = <<>>
           /\ function'.blocks[block.id + 1].exit
                  = ConditionalBranch(ctl.x.var, join, block'.id)
           /\ \A id \in 0..(Len(function'.blocks) - 1) :
                  id # block.id => block'.id \notin Successors(function', id)

\* the step that ends alt: its block is committed with a branch to the
\* join block, which becomes the cursor and holds the Phis only
AltJoins ==
    (Returning("ElseRight") /\ pc' = "compile") =>
        /\ function'.blocks[block.id + 1].insts = block.insts
        /\ function'.blocks[block.id + 1].exit = Branch(Top.exit_block.id)
        /\ block'.id = Top.exit_block.id
        /\ \A i \in 1..Len(block'.insts) : block'.insts[i].op = "Phi"

C17_ElseArmInOwnBlock == [][AltOpensBlock /\ AltJoins]_vars

(***************************************************************************)
(* C19.  For every type t and every list vs of at least size(t) variables, *)
(* map_to(t, vs) has the constructors and arities of t, and its variables  *)
(* (get_used_vars) are the first size(t) elements of vs in pre-order; so   *)
(* get_used_vars of any type has size-of-the-type many elements.           *)
(***************************************************************************)
C19_MapToAssignsInPreOrder ==
    (unit.op = "map_to" /\ unit.done) =>
        /\ ShapeEq(unit.t, unit.out)
        /\ unit.used = SubSeq(unit.vs, 1, size(unit.t))
        /\ Len(get_used_vars(unit.t)) = size(unit.t)
        /\ Len(unit.used) = size(unit.out)

\* a tuple holding a Maybe has been mapped to a list longer than its size
C19_Witness ==
    /\ unit.op = "map_to" /\ unit.done
    /\ unit.t.k = "Tuple"
    /\ \E i \in 1..Len(unit.t.types) : unit.t.types[i].k = "Maybe"
    /\ Len(unit.vs) > size(unit.t)
    /\ unit.out # unit.t

(***************************************************************************)
(* C20.  Executing the main function of any successfully compiled program  *)
(* terminates: in every function no block is reachable from itself through *)
(* branch exits, and every Call targets a function that was added to the   *)
(* program before the function containing the Call.                        *)
(***************************************************************************)
BranchTargetsExist(f) ==
    \A id \in 0..(Len(f.blocks) - 1) :
        LET exit == f.blocks[id + 1].exit
        IN /\ exit.op = "Branch" => exit.block \in 0..(Len(f.blocks) - 1)
           /\ exit.op = "ConditionalBranch" =>
                  {exit.block1, exit.block2} \subseteq 0..(Len(f.blocks) - 1)

NoBlockReachesItself(f) ==
    \A id \in 0..(Len(f.blocks) - 1) : id \notin After(f, id)

CallsTargetEarlierFunctions(k) ==
    \A id \in 0..(Len(program[k].blocks) - 1) :
        LET insts == program[k].blocks[id + 1].insts
        IN \A i \in 1..Len(insts) :
               insts[i].op = "Call" => insts[i].function < k - 1

ProgramIsLoopFree ==
    \A k \in 1..Len(program) :
        /\ BranchTargetsExist(program[k])
        /\ NoBlockReachesItself(program[k])
        /\ CallsTargetEarlierFunctions(k)

\* an upper bound on the steps execute still takes in function k from
\* instruction ip of block id on, the functions it calls included
RECURSIVE StepsFrom(_, _, _)
StepsFrom(k, id, ip) ==
    LET b == program[k].blocks[id + 1]
    IN IF ip <= Len(b.insts)
       THEN 1 + (IF b.insts[ip].op = "Call"
                 THEN StepsFrom(b.insts[ip].function + 1, 0, 1) ELSE 0)
              + StepsFrom(k, id, ip + 1)
       ELSE IF b.exit.op = "Branch" THEN 1 + StepsFrom(k, b.exit.block, 1)
       ELSE IF b.exit.op = "ConditionalBranch"
       THEN LET s1 == StepsFrom(k, b.exit.block1, 1)
                s2 == StepsFrom(k, b.exit.block2, 1)
            IN 1 + (IF s1 > s2 THEN s1 ELSE s2)
       ELSE 1

\* the same for a whole stack of activations: the running one from its
\* position, each suspended one from behind its Call
RECURSIVE StepsLeft(_)
StepsLeft(fs) ==
    IF fs = <<>> THEN 0
    ELSE LET top == fs[Len(fs)]
         IN StepsFrom(top.fn + 1, top.blk, top.ip)
            + (IF Len(fs) = 1 THEN 0
               ELSE LET caller == fs[Len(fs) - 1]
                        rest == SubSeq(fs, 1, Len(fs) - 2)
                    IN StepsLeft(Append(rest, [caller EXCEPT !.ip = @ + 1])))

ExecutionCountsDown ==
    pc = "exec" =>
        \/ pc' \in {"done", "panic"}
        \/ pc' = "exec" /\ StepsLeft(frames') < StepsLeft(frames)

C20_ExecutionTerminates ==
    /\ []ProgramIsLoopFree
    /\ [][ExecutionCountsDown]_vars

\* a program whose main calls a function from inside a branch has run to
\* its end
C20_Witness ==
    /\ pc = "done"
    /\ Len(program) >= 2
    /\ Len(program[Len(program)].blocks) >= 3
    /\ \E id \in 1..(Len(program[Len(program)].blocks) - 1) :
          \E i \in 1..Len(program[Len(program)].blocks[id + 1].insts) :
              program[Len(program)].blocks[id + 1].insts[i].op = "Call"

(***************************************************************************)
(* Variables and the function they belong to                               *)
(***************************************************************************)
BlockVars(b) ==
    UNION {InstUses(b.insts[i]) \cup Range(InstDests(b.insts[i])) :
               i \in 1..Len(b.insts)}
    \cup (IF b.exit.op = "ConditionalBranch" THEN {b.exit.cond} ELSE {})

FunctionVars(f) ==
    Range(f.params) \cup Range(f.returns)
    \cup UNION {BlockVars(f.blocks[i]) : i \in 1..Len(f.blocks)}

TypeVars(ty) == Range(get_used_vars(ty))

HandedOut(f) == 0..(f.variable_count - 1)

\* finished functions, the function being built with its cursor block, the
\* callers waiting on the stack, and the types compile holds for the
\* function being built
VarsBelowCount ==
    /\ \A n \in 1..Len(program) : FunctionVars(program[n]) \subseteq HandedOut(program[n])
    /\ pc = "compile" =>
          /\ FunctionVars(function) \cup BlockVars(block) \subseteq HandedOut(function)
          /\ \A i \in 1..Len(scope) : TypeVars(scope[i].ty) \subseteq HandedOut(function)
          /\ ctl.mode = "ret" => TypeVars(ctl.x) \subseteq HandedOut(function)
          /\ \A i \in 1..Len(stack) :
                stack[i].k = "BracketBody" =>
                    /\ FunctionVars(stack[i].function) \cup BlockVars(stack[i].block)
                           \subseteq HandedOut(stack[i].function)
                    /\ \A j \in 1..Len(stack[i].scope) :
                           TypeVars(stack[i].scope[j].ty)
                               \subseteq HandedOut(stack[i].function)

\* entering a body: everything the body can name is a parameter of the new
\* function, and the stored param_ty lists exactly its parameters
BodySeesOwnParameters ==
    (Returning("BracketRight") /\ pc' = "compile" /\ stack' # <<>>
        /\ Top'.k = "BracketBody") =>
        /\ function'.variable_count = size(ctl.x)
        /\ get_used_vars(Top'.param_ty) = function'.params
        /\ \A i \in 1..Len(scope') :
               TypeVars(scope'[i].ty) \subseteq Range(function'.params)

\* leaving a call, after monomorphising or on reuse: the type the caller
\* goes on with names the returns of the Call just emitted, which the
\* caller's counter has just handed out
CallerSeesOwnReturns ==
    ((Returning("BracketBody") \/ Returning("BracketRight"))
        /\ pc' = "compile" /\ ctl'.mode = "ret") =>
        LET emitted == block'.insts[Len(block'.insts)]
            before == IF Top.k = "BracketBody" THEN Top.function ELSE function
        IN /\ Len(block'.insts) > 0
           /\ emitted.op = "Call"
           /\ get_used_vars(ctl'.x) = emitted.returns
           /\ Range(emitted.returns)
                  = before.variable_count..(function'.variable_count - 1)

(***************************************************************************)
(* C21.  In every function of every compiled program each variable that    *)
(* occurs as parameter, return variable, operand, dest or branch condition *)
(* was allocated by that function's counter, so its id is below the        *)
(* function's variable count; no variable of one function appears in       *)
(* another function, and the types stored in an Implementation are renamed *)
(* with map_to before the caller uses their variables.                     *)
(***************************************************************************)
C21_VariablesStayInTheirFunction ==
    /\ []VarsBelowCount
    /\ [][BodySeesOwnParameters /\ CallerSeesOwnReturns]_vars

\* a finished caller holds a Call with two arguments whose argument and
\* return variables differ from the callee's parameters and returns
C21_Witness ==
    /\ pc = "done"
    /\ \E n \in 1..Len(program) :
          \E b \in Range(program[n].blocks) :
              \E inst \in Range(b.insts) :
                  /\ inst.op = "Call"
                  /\ Len(inst.args) = 2
                  /\ inst.args # program[inst.function + 1].params
                  /\ inst.returns # <<>>
                  /\ inst.returns # program[inst.function + 1].returns
====
